---- MODULE Spec2Model ----
(***************************************************************************)
(* Motion-triggered video playback controller.                             *)
(*                                                                         *)
(* Three specifications over one set of variables:                         *)
(*   SpecFilter  the confirmation-counter trigger filter                   *)
(*               (detect_motion_filtered, rpi_video_screen.py) driven by   *)
(*               arbitrary poll times and raw samples;                     *)
(*   SpecHyst    the hysteresis script (ultra_space.py main);              *)
(*   Spec        the unified orchestrator (rpi_video_screen.py main) with  *)
(*               the UnifiedVideoPlayer session.                           *)
(*                                                                         *)
(* Time units: `clock' counts tenths of a second (0.1 s, the playback      *)
(* wait's poll interval); `hclock' counts hundredths of a second (0.01 s,  *)
(* the hysteresis script samples every 0.03 s).                            *)
(***************************************************************************)
EXTENDS Integers, Sequences, FiniteSets, TLC

----------------------------------------------------------------------------
(* Program constants of rpi_video_screen.py, times in tenths of a second.  *)

\* MOTION_DEBOUNCE_TIME = 0.5 s
MOTION_DEBOUNCE_TIME == 5

\* MOTION_CONFIRMATION_COUNT = 2
MOTION_CONFIRMATION_COUNT == 2

\* EXTENDED_COOLDOWN = 2 s
EXTENDED_COOLDOWN == 20

\* main: cooldown_period = 3 s
cooldown_period == 30

\* main: time.sleep(0.5) at the end of a loop iteration
POLL_SLEEP == 5

\* main: time.sleep(1) after an exception in a loop iteration
ERROR_SLEEP == 10

\* main: time.sleep(2) after a failed first-frame attempt
RETRY_SLEEP == 20

\* main: for attempt in range(3)
FIRST_FRAME_ATTEMPTS == 3

\* _show_first_frame_single/_dual: time.sleep(0.5) between play and pause
SETTLE_SLEEP == 5

\* _wait_for_video_end_single/_wait_for_videos_end_dual: time.sleep(1)
\* before the first state poll
WAIT_GRACE == 10

\* _wait_for_video_end_single/_wait_for_videos_end_dual: time.sleep(0.1)
\* between two state polls
WAIT_POLL == 1

----------------------------------------------------------------------------
(* Program constants of ultra_space.py: distances in centimetres, times in *)
(* hundredths of a second.                                                 *)

\* TRIGGER_CM = 15.0
TRIGGER_CM == 15

\* HYSTERESIS_CM = 3.0
HYSTERESIS_CM == 3

\* COOLDOWN_SEC = 0.8 s
COOLDOWN_SEC == 80

\* SAMPLE_PERIOD = 0.03 s
SAMPLE_PERIOD == 3

\* STABLE_COUNT = 3
STABLE_COUNT == 3

----------------------------------------------------------------------------
(* Constants of rpi_vid1.py.  Times in tenths of a second.                 *)

\* main: cooldown_period = 2
VID1_COOLDOWN == 20

\* main: time.sleep(0.1) at the end of an iteration
VID1_POLL_SLEEP == 1

----------------------------------------------------------------------------
(* Bounds of the model.                                                    *)

\* time.time() when the run starts: the epoch clock is far beyond every
\* window of the program, so `clock - 0' exceeds every period at start.
StartTime == 100

\* SpecFilter: number of polls fed to the filter.
MaxPolls == 5

\* SpecFilter: the longest gap between two polls (tenths of a second).
MaxGap == 6

\* Spec: the run is followed for this long (tenths of a second).
Horizon == 70

\* Spec: length of the playlist (SINGLE_VIDEO_PATHS, DUAL_VIDEO_SETS).
NumVideos == 2

\* SpecHyst: the run is followed for this long (hundredths of a second).
HystHorizon == 110

\* SpecHyst: the longest time send_spacebar takes (its ssh call is cut off
\* by timeout=3; hundredths of a second).
MaxSend == 90

\* SpecRotate: the longest playlist, and the number of rotations followed.
MaxVideos == 5
MaxAdvances == 10

\* SpecVid1: frames of the video (total_frames), play_video threads that
\* main may start, and how long the run is followed (tenths of a second).
TotalFrames == 2
MaxThreads == 2
Vid1Horizon == 45

\* SpecPlayer, SpecSimple: method calls made on one player object.
MaxCalls == 4

----------------------------------------------------------------------------
VARIABLES
    \* wall clock read by time.time(), tenths of a second
    clock,
    \* rpi_video_screen.py module globals
    motion_sensor,
    motion_confirmation_counter,
    last_motion_time,
    \* observation of the filter: one record per poll, in order
    hist,
    \* ultra_space.py: wall clock (hundredths of a second) and main's locals
    hclock,
    last_fire,
    armed,
    under_count,
    over_count,
    \* observation of the hysteresis script, computed from the samples alone
    hobs,
    \* rpi_video_screen.py: the shutdown flag, main's position and locals
    shutdown_requested,
    pc,
    timer,
    mode,
    attempt,
    sff_caller,
    last_trigger_time,
    \* the UnifiedVideoPlayer: whether main has created it, and its fields
    player,
    \* state of each VLC media player handle
    vlc_state,
    \* observation of the orchestrator
    obs,
    \* a player's playlist length and current_index under repeated rotation
    rot,
    \* rpi_vid1.py: the VideoPlayer, main's locals and the play_video threads
    vid1,
    \* a UnifiedVideoPlayer object under calls of its methods, with the
    \* observation of the last call
    uvp,
    \* rpi_single_screen.py: a SimpleVideoPlayer object and the position of
    \* its show_first_frame call, with the observation of the commands sent
    svp

filterVars == <<clock, motion_sensor, motion_confirmation_counter,
                last_motion_time, hist>>

hystVars == <<hclock, last_fire, armed, under_count, over_count, hobs>>

apiVars == <<uvp, svp>>

sideVars == <<rot, vid1, uvp, svp>>

orchVars == <<shutdown_requested, pc, timer, mode, attempt, sff_caller,
              last_trigger_time, player, vlc_state, obs>>

vars == <<clock, motion_sensor, motion_confirmation_counter,
          last_motion_time, hist,
          hclock, last_fire, armed, under_count, over_count, hobs,
          shutdown_requested, pc, timer, mode, attempt, sff_caller,
          last_trigger_time, player, vlc_state, obs, rot, vid1, uvp, svp>>

----------------------------------------------------------------------------
(* detect_motion_filtered: the new (counter, last_motion_time) and the     *)
(* value returned, for a call at time t that reads raw sample raw.         *)

\* variant: the debounce test is dropped
detect_motion_filtered_nodebounce(sensor, counter, last, t, raw) ==
    IF sensor = "None"
    THEN [counter |-> counter, last |-> last, ret |-> FALSE]
    ELSE IF raw
         THEN IF counter + 1 >= MOTION_CONFIRMATION_COUNT
              THEN [counter |-> 0, last |-> t, ret |-> TRUE]
              ELSE [counter |-> counter + 1, last |-> last, ret |-> FALSE]
         ELSE [counter |-> 0, last |-> last, ret |-> FALSE]

\* variant: the counter is not reset by a negative sample
detect_motion_filtered_noreset(sensor, counter, last, t, raw) ==
    IF sensor = "None"
    THEN [counter |-> counter, last |-> last, ret |-> FALSE]
    ELSE IF t - last < MOTION_DEBOUNCE_TIME
    THEN [counter |-> counter, last |-> last, ret |-> FALSE]
    ELSE IF raw
         THEN IF counter + 1 >= MOTION_CONFIRMATION_COUNT
              THEN [counter |-> 0, last |-> t, ret |-> TRUE]
              ELSE [counter |-> counter + 1, last |-> last, ret |-> FALSE]
         ELSE [counter |-> counter, last |-> last, ret |-> FALSE]

\* variant: the counter update precedes the debounce test
detect_motion_filtered_countfirst(sensor, counter, last, t, raw) ==
    IF sensor = "None"
    THEN [counter |-> counter, last |-> last, ret |-> FALSE]
    ELSE IF t - last < MOTION_DEBOUNCE_TIME
    THEN [counter |-> IF raw THEN counter + 1 ELSE 0,
          last |-> last, ret |-> FALSE]
    ELSE IF raw
         THEN IF counter + 1 >= MOTION_CONFIRMATION_COUNT
              THEN [counter |-> 0, last |-> t, ret |-> TRUE]
              ELSE [counter |-> counter + 1, last |-> last, ret |-> FALSE]
         ELSE [counter |-> 0, last |-> last, ret |-> FALSE]

\* variant: the counter is kept at the threshold after a confirmed event
detect_motion_filtered_level(sensor, counter, last, t, raw) ==
    IF sensor = "None"
    THEN [counter |-> counter, last |-> last, ret |-> FALSE]
    ELSE IF t - last < MOTION_DEBOUNCE_TIME
    THEN [counter |-> counter, last |-> last, ret |-> FALSE]
    ELSE IF raw
         THEN IF counter + 1 >= MOTION_CONFIRMATION_COUNT
              THEN [counter |-> MOTION_CONFIRMATION_COUNT - 1,
                    last |-> t, ret |-> TRUE]
              ELSE [counter |-> counter + 1, last |-> last, ret |-> FALSE]
         ELSE [counter |-> 0, last |-> last, ret |-> FALSE]

\* variant: the poll that confirms leaves the counter as it is
detect_motion_filtered_keepcount(sensor, counter, last, t, raw) ==
    IF sensor = "None"
    THEN [counter |-> counter, last |-> last, ret |-> FALSE]
    ELSE IF t - last < MOTION_DEBOUNCE_TIME
    THEN [counter |-> counter, last |-> last, ret |-> FALSE]
    ELSE IF raw
         THEN IF counter + 1 >= MOTION_CONFIRMATION_COUNT
              THEN [counter |-> counter + 1, last |-> t, ret |-> TRUE]
              ELSE [counter |-> counter + 1, last |-> last, ret |-> FALSE]
         ELSE [counter |-> 0, last |-> last, ret |-> FALSE]

\* variant: the sensor is sampled without testing that there is one
detect_motion_filtered_nosensor(sensor, counter, last, t, raw) ==
    IF t - last < MOTION_DEBOUNCE_TIME
    THEN [counter |-> counter, last |-> last, ret |-> FALSE]
    ELSE IF raw
         THEN IF counter + 1 >= MOTION_CONFIRMATION_COUNT
              THEN [counter |-> 0, last |-> t, ret |-> TRUE]
              ELSE [counter |-> counter + 1, last |-> last, ret |-> FALSE]
         ELSE [counter |-> 0, last |-> last, ret |-> FALSE]

detect_motion_filtered(sensor, counter, last, t, raw) ==
    IF sensor = "None"
    THEN [counter |-> counter, last |-> last, ret |-> FALSE]
    ELSE IF t - last < MOTION_DEBOUNCE_TIME
    THEN [counter |-> counter, last |-> last, ret |-> FALSE]
    ELSE IF raw
         THEN IF counter + 1 >= MOTION_CONFIRMATION_COUNT
              THEN [counter |-> 0, last |-> t, ret |-> TRUE]
              ELSE [counter |-> counter + 1, last |-> last, ret |-> FALSE]
         ELSE [counter |-> 0, last |-> last, ret |-> FALSE]

----------------------------------------------------------------------------
(* rpi_video_screen.py: the pure parts of main and of UnifiedVideoPlayer.  *)

\* the mode argument: 'single', 'dual', or anything else
Modes == {"single", "dual", "bogus"}

\* the player attributes that hold a VLC media player
AllHandles == {"vlc_player", "vlc_player_left", "vlc_player_right"}

\* the handles a player of mode m creates
HandlesOf(m) ==
    IF m = "single" THEN {"vlc_player"}
    ELSE {"vlc_player_left", "vlc_player_right"}

NoHandles == [h \in AllHandles |-> "None"]

\* main before `player = UnifiedVideoPlayer(mode)`: no player in locals()
NoPlayer == [exists |-> FALSE, initialized |-> FALSE, is_playing |-> FALSE,
             current_index |-> 0, n |-> 0]

\* main: effective_cooldown = cooldown_period + EXTENDED_COOLDOWN
\* variant: the extended cooldown is left out
effective_cooldown_base == cooldown_period

effective_cooldown == cooldown_period + EXTENDED_COOLDOWN

\* variant: a confirmed event fires whatever the time since the last fire
FireCondition_nocooldown(motion_detected, is_playing, current_time, ltt) ==
    /\ motion_detected
    /\ ~is_playing

\* main: the condition under which a poll starts a playback
FireCondition(motion_detected, is_playing, current_time, ltt) ==
    /\ motion_detected
    /\ ~is_playing
    /\ current_time - ltt > effective_cooldown

\* variant: a player in error is waited for
Terminal_noerror(st) == st \in {"Ended", "Stopped"}

\* a state the wait loops take as the end of a playback
Terminal(st) == st \in {"Ended", "Error", "Stopped"}

\* _wait_for_video_end_single: the loop breaks on this state
WaitSingleDone(st) == Terminal(st)

\* variant: the loop breaks as soon as one of the two videos has ended
WaitDualDone_either(sl, sr) == Terminal(sl) \/ Terminal(sr)

\* _wait_for_videos_end_dual: the loop breaks on these two states
WaitDualDone(sl, sr) == Terminal(sl) /\ Terminal(sr)

\* the states read by one iteration of the wait loop end the wait
WaitDone(m, st) ==
    IF m = "single" THEN WaitSingleDone(st["vlc_player"])
    ELSE WaitDualDone(st["vlc_player_left"], st["vlc_player_right"])

\* variant: the index is not wrapped at the end of the playlist
rotate_to_next_nowrap(i) == i + 1

\* _rotate_to_next
rotate_to_next(i) == (i + 1) % NumVideos

\* the playlist lengths a configuration can give: none, or NumVideos entries
PlaylistLengths == {0, NumVideos}

\* how _position_and_fullscreen_videos ends: both windows placed, fewer
\* than two windows found (printed only), or an xdotool failure re-raised
PositioningOutcomes == {"ok", "few_windows", "raises"}

\* _check_videos: every file of the playlist exists (true of no file)
check_videos(n, files_ok) == n = 0 \/ files_ok

\* _start_vlc_instances: the VLC objects are created and, with two screens,
\* the windows positioned inside the same try block
start_vlc_instances(m, vlc_ok, positioning) ==
    vlc_ok /\ (m = "dual" => positioning # "raises")

\* variant: the playlist is indexed inside the try block of the method
show_first_frame_begin_caught(initialized, index, n, ok) ==
    IF ~initialized THEN "false"
    ELSE IF index >= n THEN "false"
    ELSE IF ok THEN "settle" ELSE "false"

\* show_first_frame up to its time.sleep(0.5): False without a player that
\* initialized, an IndexError from video_paths[current_index] outside the
\* try block, else the media are set and played or a VLC call raises
show_first_frame_begin(initialized, index, n, ok) ==
    IF ~initialized THEN "false"
    ELSE IF index >= n THEN "raise"
    ELSE IF ok THEN "settle" ELSE "false"

\* what play_video returns: every path ends in a bare return or falls off
\* the end of the method
play_video_result == "None"

\* the observation before main starts: the fires counted and timed,
\* whether a confirmed event was turned down since the last fire, how
\* the wait of the playback in progress went, whether the shutdown flag was
\* set during that wait and for how long it has been set (counted up to
\* WAIT_POLL + 1), the stop calls made, and how play_video ended;
\* the index played by the last playback attempt and by the one before,
\* the index the first frame is being shown for, the show_first_frame
\* calls made at startup and since the last playback and whether the last
\* of them succeeded, what failed since the last poll, the sensor samples
\* read (ones: a 1 waiting for its pair; pair: the last poll completed
\* [1,1]), and whether cleanup was called; whether the poll loop was
\* entered, what alone failed while the player was created (until the loop
\* is entered), which configuration error ended the run, and whether a
\* load, play or pause call was made with the shutdown flag set
ObsInit ==
    [fires |-> 0, fired_at |-> 0, prev_fired_at |-> 0,
     rejected |-> FALSE, rejected_before |-> FALSE,
     wait_start |-> -1, wait_exit |-> "none", read |-> NoHandles,
     saw_left_only |-> FALSE,
     flag_in_wait |-> FALSE, flag_age |-> 0, stops |-> 0,
     ending |-> "none", play_ret |-> "unset",
     started_index |-> -1, prev_started |-> -1, idle_for |-> -1,
     startup_tries |-> 0, startup_ok |-> FALSE,
     post_tries |-> 0, post_ok |-> FALSE, failed |-> "none",
     ones |-> 0, pair |-> FALSE, cleaned |-> FALSE,
     entered |-> FALSE, prep |-> "none", config |-> "none",
     op_after_flag |-> FALSE]

\* the orchestrator's variables while another program is the one running
OrchIdle ==
    /\ shutdown_requested = FALSE
    /\ pc = "idle"
    /\ timer = 0
    /\ mode = "single"
    /\ attempt = 0
    /\ sff_caller = "none"
    /\ last_trigger_time = 0
    /\ player = NoPlayer
    /\ vlc_state = NoHandles
    /\ obs = ObsInit

----------------------------------------------------------------------------
(* The rotation of a playlist of n entries, and rpi_vid1.py's player.      *)

\* variant: the rotation skips an entry
rotate_to_next_video_skip(i, n) == (i + 2) % n

\* _rotate_to_next, _rotate_to_next_video, _rotate_to_next_set:
\* index = (index + 1) % len(playlist)
rotate_to_next_video(i, n) == (i + 1) % n

\* the rotation while another program is the one running
RotIdle == [n |-> 1, start |-> 0, index |-> 0, advances |-> 0]

Threads == 1..MaxThreads

\* rpi_vid1.py before main runs: VideoPlayer.__init__ and main's locals;
\* th is the position of each play_video thread, noops counts the
\* play_video calls that returned at the first test, main is the position
\* of the main thread and released tells that cap.release() was called
Vid1Init(cap) ==
    [now |-> StartTime, cap |-> cap, is_playing |-> FALSE,
     current_frame |-> 0, last_trigger_time |-> 0, started |-> 0,
     th |-> [t \in Threads |-> "new"], noops |-> 0,
     main |-> "loop", released |-> FALSE]

Vid1Idle == Vid1Init(FALSE)

\* variant: cleanup leaves the references to the players in place
cleanup_handles_keep(hs) == hs

\* cleanup: every reference to a player is set to None, in the finally
\* clause of its block or because it was None already
cleanup_handles(hs) == [h \in AllHandles |-> "None"]

\* a UnifiedVideoPlayer after __init__: made tells whether the VLC players
\* were created; busy tells that a play_video call is in its wait; last is
\* the last call made and ret what it returned, before_index the
\* current_index when it was made, same whether it left the fields as they
\* were; stops and releases count the stop and release calls made on the
\* players by the last cleanup call; cleanups counts the cleanup calls (up
\* to 2)
UvpInit(m, initialized, made) ==
    [mode |-> m, initialized |-> initialized, is_playing |-> FALSE,
     current_index |-> 0,
     handles |-> [h \in AllHandles |->
                    IF made /\ h \in HandlesOf(m) THEN "NothingSpecial"
                    ELSE "None"],
     made |-> made, busy |-> FALSE, calls |-> 0, last |-> "init",
     ret |-> "unset", before_index |-> 0, same |-> TRUE,
     stops |-> 0, releases |-> 0, cleanups |-> 0]

UvpIdle == UvpInit("single", FALSE, FALSE)

\* SimpleVideoPlayer.show_first_frame: the commands it sends, in order
ShowFirstFrameCommands == <<"clear", "add", "play", "seek 0", "pause">>

\* SimpleVideoPlayer.play_video: the commands it sends, in order
PlayVideoCommands == <<"seek 0", "play">>

\* what a write to the pipe of the VLC process does: it is taken, it
\* raises BrokenPipeError, or it raises another exception
PipeOutcomes == {"ok", "broken", "error"}

\* _send_vlc_command: the command is written when the VLC process runs
\* and the pipe takes it; a broken pipe drops the process, another
\* exception does not; the result is False whenever the command was not
\* written
send_vlc_command(vlc_process, pipe) ==
    IF vlc_process = "running"
    THEN CASE pipe = "ok" -> [ret |-> TRUE, vlc_process |-> vlc_process]
           [] pipe = "broken" -> [ret |-> FALSE, vlc_process |-> "None"]
           [] OTHER -> [ret |-> FALSE, vlc_process |-> vlc_process]
    ELSE [ret |-> FALSE, vlc_process |-> vlc_process]

\* the playlist of the VLC process (the set of units loaded in it) after
\* it has read a command of its rc interface: `clear' empties it, `add'
\* loads the unit named in the command, the others leave it as it is
vlc_command(loaded, command, index) ==
    CASE command = "clear" -> {}
      [] command = "add" -> {index}
      [] OTHER -> loaded

\* a SimpleVideoPlayer after __init__ and i rotations: step is the position
\* of the show_first_frame call in progress (0: none), sent and refused
\* count its commands by the result of _send_vlc_command, ret is what the
\* last call returned; op is the method under call and last the one that
\* returned last, loaded is the playlist of the VLC process (started with
\* no medium), started tells that the `play' of the play_video call under
\* way was written
SvpInit(initialized, i) ==
    [initialized |-> initialized,
     vlc_process |-> IF initialized THEN "running" ELSE "None",
     current_video_index |-> i, step |-> 0, sent |-> 0, refused |-> 0,
     ret |-> "unset", calls |-> 0,
     op |-> "none", last |-> "init", loaded |-> {}, started |-> FALSE]

SvpIdle == SvpInit(FALSE, 0)

\* no player object is under call
ApiIdle ==
    /\ uvp = UvpIdle
    /\ svp = SvpIdle

\* the side programs while another program is the one running
SideIdle ==
    /\ rot = RotIdle
    /\ vid1 = Vid1Idle
    /\ uvp = UvpIdle
    /\ svp = SvpIdle

----------------------------------------------------------------------------
(* ultra_space.py main: one iteration of the poll loop on distance d read  *)
(* at time now.  The new locals, and whether send_spacebar was called.     *)

Min(a, b) == IF a <= b THEN a ELSE b

\* main's locals low and high
low == TRIGGER_CM
high == TRIGGER_CM + HYSTERESIS_CM

\* variant: the cooldown test is dropped from the trigger condition
HystStep_nocooldown(a, uc, oc, lf, now, d) ==
    IF a
    THEN IF d <= low
         THEN IF uc + 1 >= STABLE_COUNT
              THEN [armed |-> FALSE, under |-> 0, over |-> 0,
                    last_fire |-> now, fired |-> TRUE]
              ELSE [armed |-> TRUE, under |-> uc + 1, over |-> 0,
                    last_fire |-> lf, fired |-> FALSE]
         ELSE [armed |-> TRUE, under |-> 0, over |-> oc,
               last_fire |-> lf, fired |-> FALSE]
    ELSE IF d >= high
         THEN IF oc + 1 >= STABLE_COUNT
              THEN [armed |-> TRUE, under |-> uc, over |-> 0,
                    last_fire |-> lf, fired |-> FALSE]
              ELSE [armed |-> FALSE, under |-> uc, over |-> oc + 1,
                    last_fire |-> lf, fired |-> FALSE]
         ELSE [armed |-> FALSE, under |-> uc, over |-> 0,
               last_fire |-> lf, fired |-> FALSE]

\* variant: a sample inside the band does not reset over_count
HystStep_bandkeeps(a, uc, oc, lf, now, d) ==
    IF a
    THEN IF d <= low
         THEN IF uc + 1 >= STABLE_COUNT /\ (now - lf) > COOLDOWN_SEC
              THEN [armed |-> FALSE, under |-> 0, over |-> 0,
                    last_fire |-> now, fired |-> TRUE]
              ELSE [armed |-> TRUE, under |-> uc + 1, over |-> 0,
                    last_fire |-> lf, fired |-> FALSE]
         ELSE [armed |-> TRUE, under |-> 0, over |-> oc,
               last_fire |-> lf, fired |-> FALSE]
    ELSE IF d >= high
         THEN IF oc + 1 >= STABLE_COUNT
              THEN [armed |-> TRUE, under |-> uc, over |-> 0,
                    last_fire |-> lf, fired |-> FALSE]
              ELSE [armed |-> FALSE, under |-> uc, over |-> oc + 1,
                    last_fire |-> lf, fired |-> FALSE]
         ELSE [armed |-> FALSE, under |-> uc, over |-> oc,
               last_fire |-> lf, fired |-> FALSE]

\* variant: the trigger leaves under_count as it is
HystStep_keepunder(a, uc, oc, lf, now, d) ==
    IF a
    THEN IF d <= low
         THEN IF uc + 1 >= STABLE_COUNT /\ (now - lf) > COOLDOWN_SEC
              THEN [armed |-> FALSE, under |-> uc + 1, over |-> 0,
                    last_fire |-> now, fired |-> TRUE]
              ELSE [armed |-> TRUE, under |-> uc + 1, over |-> 0,
                    last_fire |-> lf, fired |-> FALSE]
         ELSE [armed |-> TRUE, under |-> 0, over |-> oc,
               last_fire |-> lf, fired |-> FALSE]
    ELSE IF d >= high
         THEN IF oc + 1 >= STABLE_COUNT
              THEN [armed |-> TRUE, under |-> uc, over |-> 0,
                    last_fire |-> lf, fired |-> FALSE]
              ELSE [armed |-> FALSE, under |-> uc, over |-> oc + 1,
                    last_fire |-> lf, fired |-> FALSE]
         ELSE [armed |-> FALSE, under |-> uc, over |-> 0,
               last_fire |-> lf, fired |-> FALSE]

\* variant: a stable run that the cooldown holds back is counted anew
HystStep_dropblocked(a, uc, oc, lf, now, d) ==
    IF a
    THEN IF d <= low
         THEN IF uc + 1 >= STABLE_COUNT
              THEN IF (now - lf) > COOLDOWN_SEC
                   THEN [armed |-> FALSE, under |-> 0, over |-> 0,
                         last_fire |-> now, fired |-> TRUE]
                   ELSE [armed |-> TRUE, under |-> 0, over |-> 0,
                         last_fire |-> lf, fired |-> FALSE]
              ELSE [armed |-> TRUE, under |-> uc + 1, over |-> 0,
                    last_fire |-> lf, fired |-> FALSE]
         ELSE [armed |-> TRUE, under |-> 0, over |-> oc,
               last_fire |-> lf, fired |-> FALSE]
    ELSE IF d >= high
         THEN IF oc + 1 >= STABLE_COUNT
              THEN [armed |-> TRUE, under |-> uc, over |-> 0,
                    last_fire |-> lf, fired |-> FALSE]
              ELSE [armed |-> FALSE, under |-> uc, over |-> oc + 1,
                    last_fire |-> lf, fired |-> FALSE]
         ELSE [armed |-> FALSE, under |-> uc, over |-> 0,
               last_fire |-> lf, fired |-> FALSE]

HystStep(a, uc, oc, lf, now, d) ==
    IF a
    THEN IF d <= low
         THEN IF uc + 1 >= STABLE_COUNT /\ (now - lf) > COOLDOWN_SEC
              THEN [armed |-> FALSE, under |-> 0, over |-> 0,
                    last_fire |-> now, fired |-> TRUE]
              ELSE [armed |-> TRUE, under |-> uc + 1, over |-> 0,
                    last_fire |-> lf, fired |-> FALSE]
         ELSE [armed |-> TRUE, under |-> 0, over |-> oc,
               last_fire |-> lf, fired |-> FALSE]
    ELSE IF d >= high
         THEN IF oc + 1 >= STABLE_COUNT
              THEN [armed |-> TRUE, under |-> uc, over |-> 0,
                    last_fire |-> lf, fired |-> FALSE]
              ELSE [armed |-> FALSE, under |-> uc, over |-> oc + 1,
                    last_fire |-> lf, fired |-> FALSE]
         ELSE [armed |-> FALSE, under |-> uc, over |-> 0,
               last_fire |-> lf, fired |-> FALSE]

\* distances read from the sensor: below near, on near, inside the band,
\* on far, beyond far
Distances == {TRIGGER_CM - 1, TRIGGER_CM, TRIGGER_CM + 1,
              TRIGGER_CM + HYSTERESIS_CM, TRIGGER_CM + HYSTERESIS_CM + 1}

\* time send_spacebar takes
SendDurations == {1, MaxSend}

\* the sample seen from outside: near, far, or inside the band
Zone(d) == IF d <= TRIGGER_CM THEN "near"
           ELSE IF d >= TRIGGER_CM + HYSTERESIS_CM THEN "far"
           ELSE "band"

\* the sample stream [far, far, near, near, near]
Example == <<"far", "far", "near", "near", "near">>

\* the observation before the first poll
HobsInit ==
    [polled |-> FALSE, d |-> 0, now |-> 0, zone |-> "none",
     near_run |-> 0, far_run |-> 0,
     armed_before |-> TRUE, fired |-> FALSE,
     fires_before |-> 0, fires |-> 0,
     fired_at |-> 0, cool_before |-> TRUE,
     far_seen_before |-> FALSE, far_seen |-> FALSE,
     deferred_before |-> FALSE, deferred |-> FALSE,
     prev_fired_at |-> 0, blocked_before |-> 0, blocked |-> 0,
     example |-> 0]

\* the observation after a poll at time now that read d; fired tells
\* whether the poll called send_spacebar; blocked counts (up to 2) the
\* polls in a row on which the script was armed, the sample had been near
\* for STABLE_COUNT polls and the cooldown was still running
HobsNext(o, a, now, d, fired) ==
    LET nr == IF Zone(d) = "near" THEN Min(o.near_run + 1, STABLE_COUNT) ELSE 0
        fr == IF Zone(d) = "far" THEN Min(o.far_run + 1, STABLE_COUNT) ELSE 0
        cool == o.fires = 0 \/ now - o.fired_at > COOLDOWN_SEC
    IN [polled |-> TRUE, d |-> d, now |-> now, zone |-> Zone(d),
        near_run |-> nr, far_run |-> fr,
        armed_before |-> a, fired |-> fired,
        fires_before |-> o.fires,
        fires |-> IF fired THEN Min(o.fires + 1, 2) ELSE o.fires,
        fired_at |-> IF fired THEN now ELSE o.fired_at,
        cool_before |-> cool,
        far_seen_before |-> o.far_seen,
        far_seen |-> IF fired THEN FALSE
                     ELSE o.far_seen \/ fr = STABLE_COUNT,
        deferred_before |-> o.deferred,
        deferred |-> IF fired THEN FALSE
                     ELSE o.deferred \/ (a /\ nr = STABLE_COUNT /\ ~cool),
        prev_fired_at |-> IF fired THEN o.fired_at ELSE o.prev_fired_at,
        blocked_before |-> o.blocked,
        blocked |-> IF a /\ nr = STABLE_COUNT /\ ~cool
                    THEN Min(o.blocked + 1, 2) ELSE 0,
        example |-> IF o.example \in 0..(Len(Example) - 1)
                       /\ Zone(d) = Example[o.example + 1]
                    THEN o.example + 1 ELSE -1]

\* the script's variables while another program is the one running
HystIdle ==
    /\ hclock = StartTime
    /\ last_fire = 0
    /\ armed = TRUE
    /\ under_count = 0
    /\ over_count = 0
    /\ hobs = HobsInit

\* the filter's variables while another program is the one running
FilterIdle ==
    /\ clock = StartTime
    /\ motion_sensor = "None"
    /\ motion_confirmation_counter = 0
    /\ last_motion_time = 0
    /\ hist = <<>>

InitHyst ==
    /\ hclock = StartTime
    /\ last_fire = 0
    /\ armed = TRUE
    /\ under_count = 0
    /\ over_count = 0
    /\ hobs = HobsInit
    /\ FilterIdle
    /\ SideIdle
    /\ OrchIdle

\* one iteration of the while True loop: read the distance, decide, call
\* send_spacebar (taking dur) on a trigger, sleep SAMPLE_PERIOD
HystPoll(d, dur) ==
    /\ hclock < StartTime + HystHorizon
    /\ LET now == hclock
           r == HystStep(armed, under_count, over_count, last_fire, now, d)
       IN /\ armed' = r.armed
          /\ under_count' = r.under
          /\ over_count' = r.over
          /\ last_fire' = r.last_fire
          /\ hobs' = HobsNext(hobs, armed, now, d, r.fired)
          /\ hclock' = hclock + (IF r.fired THEN dur ELSE 0) + SAMPLE_PERIOD
    /\ UNCHANGED filterVars
    /\ UNCHANGED sideVars
    /\ UNCHANGED orchVars

NextHyst == \E d \in Distances, dur \in SendDurations : HystPoll(d, dur)

SpecHyst == InitHyst /\ [][NextHyst]_vars

----------------------------------------------------------------------------
(* SpecFilter: the filter called at arbitrary times with arbitrary samples *)

\* gaps between two calls: inside the debounce window, on its edge, beyond
PollGaps == {1, MOTION_DEBOUNCE_TIME - 1, MOTION_DEBOUNCE_TIME, MaxGap}

InitFilter ==
    /\ clock = StartTime
    /\ motion_sensor = "sensor"
    /\ motion_confirmation_counter = 0
    /\ last_motion_time = 0
    /\ hist = <<>>
    /\ HystIdle
    /\ SideIdle
    /\ OrchIdle

\* one call of detect_motion_filtered, gap after the previous one
FilterPoll(gap, raw) ==
    /\ Len(hist) < MaxPolls
    /\ LET t == clock + gap
           r == detect_motion_filtered(motion_sensor,
                    motion_confirmation_counter, last_motion_time, t, raw)
       IN /\ clock' = t
          /\ motion_confirmation_counter' = r.counter
          /\ last_motion_time' = r.last
          /\ hist' = Append(hist, [t |-> t, raw |-> raw, ret |-> r.ret,
                                   before |-> motion_confirmation_counter,
                                   after |-> r.counter])
    /\ UNCHANGED motion_sensor
    /\ UNCHANGED hystVars
    /\ UNCHANGED sideVars
    /\ UNCHANGED orchVars

NextFilter == \E gap \in PollGaps, raw \in BOOLEAN : FilterPoll(gap, raw)

SpecFilter == InitFilter /\ [][NextFilter]_vars

----------------------------------------------------------------------------
(* SpecRotate: a playlist of n entries rotated again and again from any    *)
(* starting index.                                                         *)

InitRotate ==
    /\ rot \in {[n |-> n, start |-> i, index |-> i, advances |-> 0] :
                   n \in 1..MaxVideos, i \in 0..(MaxVideos - 1)}
    /\ rot.start < rot.n
    /\ vid1 = Vid1Idle
    /\ ApiIdle
    /\ FilterIdle
    /\ HystIdle
    /\ OrchIdle

\* one call of _rotate_to_next
Advance ==
    /\ rot.advances < MaxAdvances
    /\ rot' = [rot EXCEPT !.index = rotate_to_next_video(rot.index, rot.n),
                          !.advances = rot.advances + 1]
    /\ UNCHANGED <<vid1, apiVars, filterVars, hystVars, orchVars>>

NextRotate == Advance

SpecRotate == InitRotate /\ [][NextRotate]_vars

----------------------------------------------------------------------------
(* SpecVid1: rpi_vid1.py, whose main loop starts play_video on a thread of *)
(* its own.  The main loop advances the clock by its sleep; the threads'   *)
(* steps are interleaved with it in any order.                             *)

InitVid1 ==
    /\ vid1 \in {Vid1Init(cap) : cap \in BOOLEAN}
    /\ rot = RotIdle
    /\ ApiIdle
    /\ FilterIdle
    /\ HystIdle
    /\ OrchIdle

\* main: the condition under which an iteration starts a thread
Vid1FireCondition(near, is_playing, current_time, ltt) ==
    /\ near
    /\ ~is_playing
    /\ current_time - ltt > VID1_COOLDOWN

\* main: one iteration of `while True`: the distance is measured (near:
\* 0 < distance < MOTION_THRESHOLD), a thread is started on a fire, then
\* time.sleep(0.1)
Vid1Poll(near) ==
    /\ vid1.main = "loop"
    /\ vid1.now < StartTime + Vid1Horizon
    /\ LET current_time == vid1.now
           fire == Vid1FireCondition(near, vid1.is_playing, current_time,
                                     vid1.last_trigger_time)
       IN /\ fire => vid1.started < MaxThreads
          /\ vid1' = IF fire
                     THEN [vid1 EXCEPT
                             !.last_trigger_time = current_time,
                             !.started = vid1.started + 1,
                             !.th[vid1.started + 1] = "check",
                             !.now = current_time + VID1_POLL_SLEEP]
                     ELSE [vid1 EXCEPT !.now = current_time + VID1_POLL_SLEEP]
    /\ UNCHANGED <<rot, apiVars, filterVars, hystVars, orchVars>>

\* main: KeyboardInterrupt in the loop: `break`, then the finally clause
\* calls player.cleanup(): `if self.cap: self.cap.release()`.  The threads
\* are not joined
Vid1Cleanup ==
    /\ vid1.main = "loop"
    /\ vid1' = [vid1 EXCEPT !.main = "cleaned", !.released = vid1.cap]
    /\ UNCHANGED <<rot, apiVars, filterVars, hystVars, orchVars>>

\* main returns after GPIO.cleanup() and the interpreter exits; the
\* play_video threads are daemon threads and end with it
Vid1Exit ==
    /\ vid1.main = "cleaned"
    /\ vid1' = [vid1 EXCEPT !.main = "exited"]
    /\ UNCHANGED <<rot, apiVars, filterVars, hystVars, orchVars>>

\* the process is running: its daemon threads take steps
Vid1Alive == vid1.main # "exited"

\* play_video: `if self.cap is None or self.is_playing: return`
ThreadCheck(t) ==
    /\ Vid1Alive
    /\ vid1.th[t] = "check"
    /\ vid1' = IF ~vid1.cap \/ vid1.is_playing
               THEN [vid1 EXCEPT !.th[t] = "done",
                                 !.noops = Min(vid1.noops + 1, MaxThreads)]
               ELSE [vid1 EXCEPT !.th[t] = "set"]
    /\ UNCHANGED <<rot, apiVars, filterVars, hystVars, orchVars>>

\* play_video: self.is_playing = True
ThreadSet(t) ==
    /\ Vid1Alive
    /\ vid1.th[t] = "set"
    /\ vid1' = [vid1 EXCEPT !.is_playing = TRUE, !.th[t] = "loop"]
    /\ UNCHANGED <<rot, apiVars, filterVars, hystVars, orchVars>>

\* play_video: one pass of the frame loop; ret is what cap.read() gives
\* (a pressed ESC key leaves the loop as a failed read does)
ThreadFrame(t, ret) ==
    /\ Vid1Alive
    /\ vid1.th[t] = "loop"
    /\ vid1' = IF vid1.is_playing /\ vid1.current_frame < TotalFrames /\ ret
               THEN [vid1 EXCEPT !.current_frame = vid1.current_frame + 1]
               ELSE [vid1 EXCEPT !.th[t] = "end"]
    /\ UNCHANGED <<rot, apiVars, filterVars, hystVars, orchVars>>

\* play_video: self.is_playing = False
ThreadEnd(t) ==
    /\ Vid1Alive
    /\ vid1.th[t] = "end"
    /\ vid1' = [vid1 EXCEPT !.is_playing = FALSE, !.th[t] = "first_frame"]
    /\ UNCHANGED <<rot, apiVars, filterVars, hystVars, orchVars>>

\* play_video: self.show_first_frame(), then the thread ends
ThreadFirstFrame(t, ret) ==
    /\ Vid1Alive
    /\ vid1.th[t] = "first_frame"
    /\ vid1' = [vid1 EXCEPT
                  !.current_frame = IF ret THEN 0 ELSE vid1.current_frame,
                  !.th[t] = "done"]
    /\ UNCHANGED <<rot, apiVars, filterVars, hystVars, orchVars>>

NextVid1 ==
    \/ \E near \in BOOLEAN : Vid1Poll(near)
    \/ Vid1Cleanup
    \/ Vid1Exit
    \/ \E t \in Threads : ThreadCheck(t)
    \/ \E t \in Threads : ThreadSet(t)
    \/ \E t \in Threads, ret \in BOOLEAN : ThreadFrame(t, ret)
    \/ \E t \in Threads : ThreadEnd(t)
    \/ \E t \in Threads, ret \in BOOLEAN : ThreadFirstFrame(t, ret)

SpecVid1 == InitVid1 /\ [][NextVid1]_vars

----------------------------------------------------------------------------
(* SpecPlayer: a UnifiedVideoPlayer object on a playlist of NumVideos      *)
(* units, under any sequence of calls of show_first_frame, play_video and  *)
(* cleanup; while one play_video call is in its wait, play_video may be    *)
(* called again.  The VLC calls of cleanup are taken not to raise.         *)

\* the object after __init__: initialized with its players, not
\* initialized without them (a file is missing, VLC does not start), or
\* not initialized with the two players made (the positioning failed)
InitPlayer ==
    /\ uvp \in {UvpInit(m, i, made) :
                   m \in {"single", "dual"}, i \in BOOLEAN, made \in BOOLEAN}
    /\ uvp.initialized => uvp.made
    /\ (uvp.made /\ ~uvp.initialized) => uvp.mode = "dual"
    /\ svp = SvpIdle
    /\ rot = RotIdle
    /\ vid1 = Vid1Idle
    /\ FilterIdle
    /\ HystIdle
    /\ OrchIdle

\* every player of the object's mode is there
UvpAlive == \A h \in HandlesOf(uvp.mode) : uvp.handles[h] # "None"

\* show_first_frame, whole: the media are set and played, and paused after
\* the time.sleep(0.5) ("ok"), or a VLC call raises before the sleep
\* ("raise_load") or after it ("raise_pause"); a call on a player that is
\* None raises as well
UvpShowFirstFrame(outcome) ==
    /\ ~uvp.busy
    /\ uvp.calls < MaxCalls
    /\ LET begun == show_first_frame_begin(uvp.initialized,
                         uvp.current_index, NumVideos,
                         UvpAlive /\ outcome # "raise_load")
           state == IF outcome = "ok" THEN "Paused" ELSE "Playing"
           handles == IF begun = "settle"
                      THEN [h \in AllHandles |->
                              IF h \in HandlesOf(uvp.mode) THEN state
                              ELSE uvp.handles[h]]
                      ELSE uvp.handles
       IN uvp' = [uvp EXCEPT
                    !.handles = handles,
                    !.calls = uvp.calls + 1,
                    !.last = "show_first_frame",
                    !.ret = IF begun = "settle" /\ outcome = "ok"
                            THEN "True" ELSE "False",
                    !.before_index = uvp.current_index,
                    !.same = (handles = uvp.handles)]
    /\ UNCHANGED <<rot, vid1, svp, filterVars, hystVars, orchVars>>

\* variant: the early returns of play_video are inside the try block, so
\* that the finally clause rotates
UvpPlayVideo_earlyrotate(ok) ==
    /\ uvp.calls < MaxCalls
    /\ IF uvp.is_playing \/ ~uvp.initialized
       THEN uvp' = [uvp EXCEPT
                      !.calls = uvp.calls + 1,
                      !.last = "play_video_early",
                      !.ret = play_video_result,
                      !.current_index = rotate_to_next(uvp.current_index),
                      !.before_index = uvp.current_index,
                      !.same = FALSE]
       ELSE IF ok /\ UvpAlive
       THEN uvp' = [uvp EXCEPT
                      !.is_playing = TRUE,
                      !.handles = [h \in AllHandles |->
                                     IF h \in HandlesOf(uvp.mode)
                                     THEN "Playing" ELSE uvp.handles[h]],
                      !.busy = TRUE,
                      !.calls = uvp.calls + 1,
                      !.last = "play_video_begin",
                      !.ret = "unset",
                      !.before_index = uvp.current_index,
                      !.same = FALSE]
       ELSE uvp' = [uvp EXCEPT
                      !.is_playing = FALSE,
                      !.current_index = rotate_to_next(uvp.current_index),
                      !.calls = uvp.calls + 1,
                      !.last = "play_video",
                      !.ret = play_video_result,
                      !.before_index = uvp.current_index,
                      !.same = FALSE]
    /\ UNCHANGED <<rot, vid1, svp, filterVars, hystVars, orchVars>>

\* play_video up to its wait: the early returns; else is_playing is set
\* and the media are set and played (ok), or a VLC call raises (also on a
\* player that is None) and the finally clause runs at once
UvpPlayVideo(ok) ==
    /\ uvp.calls < MaxCalls
    /\ IF uvp.is_playing \/ ~uvp.initialized
       THEN uvp' = [uvp EXCEPT
                      !.calls = uvp.calls + 1,
                      !.last = "play_video_early",
                      !.ret = play_video_result,
                      !.before_index = uvp.current_index,
                      !.same = TRUE]
       ELSE IF ok /\ UvpAlive
       THEN uvp' = [uvp EXCEPT
                      !.is_playing = TRUE,
                      !.handles = [h \in AllHandles |->
                                     IF h \in HandlesOf(uvp.mode)
                                     THEN "Playing" ELSE uvp.handles[h]],
                      !.busy = TRUE,
                      !.calls = uvp.calls + 1,
                      !.last = "play_video_begin",
                      !.ret = "unset",
                      !.before_index = uvp.current_index,
                      !.same = FALSE]
       ELSE uvp' = [uvp EXCEPT
                      !.is_playing = FALSE,
                      !.current_index = rotate_to_next(uvp.current_index),
                      !.calls = uvp.calls + 1,
                      !.last = "play_video",
                      !.ret = play_video_result,
                      !.before_index = uvp.current_index,
                      !.same = FALSE]
    /\ UNCHANGED <<rot, vid1, svp, filterVars, hystVars, orchVars>>

\* the wait of play_video ends with the players in state st (a terminal
\* state read, the shutdown flag, or an exception of get_state), and the
\* finally clause runs
UvpPlayEnd(st) ==
    /\ uvp.busy
    /\ uvp' = [uvp EXCEPT
                 !.is_playing = FALSE,
                 !.handles = [h \in AllHandles |->
                                IF h \in HandlesOf(uvp.mode) THEN st
                                ELSE uvp.handles[h]],
                 !.current_index = rotate_to_next(uvp.current_index),
                 !.busy = FALSE,
                 !.last = "play_video",
                 !.ret = play_video_result,
                 !.before_index = uvp.current_index,
                 !.same = FALSE]
    /\ UNCHANGED <<rot, vid1, svp, filterVars, hystVars, orchVars>>

\* cleanup: is_playing is cleared; every player that is not None is
\* stopped and released, and set to None
UvpCleanup ==
    /\ ~uvp.busy
    /\ uvp.calls < MaxCalls
    /\ LET there == {h \in AllHandles : uvp.handles[h] # "None"}
           handles == cleanup_handles(uvp.handles)
       IN uvp' = [uvp EXCEPT
                    !.is_playing = FALSE,
                    !.handles = handles,
                    !.calls = uvp.calls + 1,
                    !.last = "cleanup",
                    !.ret = "None",
                    !.before_index = uvp.current_index,
                    !.same = (handles = uvp.handles /\ ~uvp.is_playing),
                    !.stops = Cardinality(there),
                    !.releases = Cardinality(there),
                    !.cleanups = Min(uvp.cleanups + 1, 2)]
    /\ UNCHANGED <<rot, vid1, svp, filterVars, hystVars, orchVars>>

NextPlayer ==
    \/ \E outcome \in {"ok", "raise_load", "raise_pause"} :
          UvpShowFirstFrame(outcome)
    \/ \E ok \in BOOLEAN : UvpPlayVideo(ok)
    \/ \E st \in {"Ended", "Error", "Playing"} : UvpPlayEnd(st)
    \/ UvpCleanup

SpecPlayer == InitPlayer /\ [][NextPlayer]_vars

----------------------------------------------------------------------------
(* SpecSimple: rpi_single_screen.py, the calls main makes on its           *)
(* SimpleVideoPlayer: show_first_frame, and play_video after a             *)
(* show_first_frame call has returned.  The VLC process may exit at any    *)
(* moment and each write to its pipe may fail.                             *)

InitSimple ==
    /\ svp \in {SvpInit(i, 0) : i \in BOOLEAN}
    /\ uvp = UvpIdle
    /\ rot = RotIdle
    /\ vid1 = Vid1Idle
    /\ FilterIdle
    /\ HystIdle
    /\ OrchIdle

\* show_first_frame is called: False at once when not initialized
SvpCall ==
    /\ svp.op = "none"
    /\ svp.calls < MaxCalls
    /\ svp' = IF ~svp.initialized
              THEN [svp EXCEPT !.ret = "False", !.calls = svp.calls + 1]
              ELSE [svp EXCEPT !.op = "sff", !.step = 1, !.sent = 0,
                               !.refused = 0, !.ret = "unset",
                               !.calls = svp.calls + 1]
    /\ UNCHANGED <<rot, vid1, uvp, filterVars, hystVars, orchVars>>

\* show_first_frame sends its next command and drops the result; after
\* the last command it returns True
SvpSend(pipe) ==
    /\ svp.op = "sff"
    /\ svp.step \in 1..Len(ShowFirstFrameCommands)
    /\ LET r == send_vlc_command(svp.vlc_process, pipe)
           last == svp.step = Len(ShowFirstFrameCommands)
       IN svp' = [svp EXCEPT
                    !.vlc_process = r.vlc_process,
                    !.loaded = IF r.ret
                               THEN vlc_command(svp.loaded,
                                       ShowFirstFrameCommands[svp.step],
                                       svp.current_video_index)
                               ELSE svp.loaded,
                    !.sent = IF r.ret THEN svp.sent + 1 ELSE svp.sent,
                    !.refused = IF r.ret THEN svp.refused
                                ELSE svp.refused + 1,
                    !.step = IF last THEN 0 ELSE svp.step + 1,
                    !.op = IF last THEN "none" ELSE svp.op,
                    !.last = IF last THEN "sff" ELSE svp.last,
                    !.ret = IF last THEN "True" ELSE svp.ret]
    /\ UNCHANGED <<rot, vid1, uvp, filterVars, hystVars, orchVars>>

\* main calls play_video, which it does in its loop only, where every
\* iteration that plays ends with a show_first_frame call and the first
\* follows the one at startup; is_playing is False there and the player
\* initialized, so the call goes past its early returns
SvpPlayCall ==
    /\ svp.op = "none"
    /\ svp.last = "sff"
    /\ svp.calls < MaxCalls
    /\ svp' = [svp EXCEPT !.op = "play", !.step = 1, !.started = FALSE,
                          !.calls = svp.calls + 1]
    /\ UNCHANGED <<rot, vid1, uvp, filterVars, hystVars, orchVars>>

\* play_video sends `seek 0', then `play', and drops the results
SvpPlaySend(pipe) ==
    /\ svp.op = "play"
    /\ svp.step \in 1..Len(PlayVideoCommands)
    /\ LET r == send_vlc_command(svp.vlc_process, pipe)
           command == PlayVideoCommands[svp.step]
       IN svp' = [svp EXCEPT
                    !.vlc_process = r.vlc_process,
                    !.loaded = IF r.ret
                               THEN vlc_command(svp.loaded, command,
                                                svp.current_video_index)
                               ELSE svp.loaded,
                    !.started = r.ret /\ command = "play",
                    !.step = svp.step + 1]
    /\ UNCHANGED <<rot, vid1, uvp, filterVars, hystVars, orchVars>>

\* play_video: _wait_for_video_end returns, then the finally clause:
\* is_playing = False and _rotate_to_next_video()
SvpPlayEnd ==
    /\ svp.op = "play"
    /\ svp.step = Len(PlayVideoCommands) + 1
    /\ svp' = [svp EXCEPT
                 !.current_video_index =
                     rotate_to_next_video(svp.current_video_index,
                                          NumVideos),
                 !.op = "none", !.last = "play", !.step = 0,
                 !.started = FALSE]
    /\ UNCHANGED <<rot, vid1, uvp, filterVars, hystVars, orchVars>>

\* the VLC process exits
SvpProcessExits ==
    /\ svp.vlc_process = "running"
    /\ svp' = [svp EXCEPT !.vlc_process = "exited"]
    /\ UNCHANGED <<rot, vid1, uvp, filterVars, hystVars, orchVars>>

NextSimple ==
    \/ SvpCall
    \/ \E pipe \in PipeOutcomes : SvpSend(pipe)
    \/ SvpPlayCall
    \/ \E pipe \in PipeOutcomes : SvpPlaySend(pipe)
    \/ SvpPlayEnd
    \/ SvpProcessExits

SpecSimple == InitSimple /\ [][NextSimple]_vars

----------------------------------------------------------------------------
(* Spec: rpi_video_screen.py main with the UnifiedVideoPlayer.             *)
(* A program step runs when no sleep is pending (timer = 0); Tick lets a   *)
(* tenth of a second of a pending sleep pass; the signal handler and the   *)
(* VLC players run at any moment.                                          *)

Init ==
    /\ clock = StartTime
    /\ motion_sensor = "None"
    /\ motion_confirmation_counter = 0
    /\ last_motion_time = 0
    /\ hist = <<>>
    /\ HystIdle
    /\ SideIdle
    /\ shutdown_requested = FALSE
    /\ pc = "start"
    /\ timer = 0
    /\ mode \in Modes
    /\ attempt = 0
    /\ sff_caller = "none"
    /\ last_trigger_time = 0
    /\ player = NoPlayer
    /\ vlc_state = NoHandles
    /\ obs = ObsInit

filterState == <<motion_sensor, motion_confirmation_counter,
                 last_motion_time, hist>>

Running == pc \notin {"idle", "start", "returned"}

\* time.sleep: a tenth of a second of the pending sleep passes
Tick ==
    /\ Running
    /\ timer > 0
    /\ clock < StartTime + Horizon
    /\ clock' = clock + 1
    /\ timer' = timer - 1
    /\ obs' = IF shutdown_requested
              THEN [obs EXCEPT !.flag_age = Min(obs.flag_age + 1, WAIT_POLL + 1)]
              ELSE obs
    /\ UNCHANGED <<filterState, hystVars, sideVars, shutdown_requested, pc, mode, attempt,
                   sff_caller, last_trigger_time, player, vlc_state>>

\* variant: the handler flips the flag
Signal_toggle ==
    /\ Running
    /\ shutdown_requested' = ~shutdown_requested
    /\ obs' = [obs EXCEPT !.flag_in_wait = (pc = "wait"), !.flag_age = 0]
    /\ UNCHANGED <<clock, filterState, hystVars, sideVars, pc, timer, mode, attempt,
                   sff_caller, last_trigger_time, player, vlc_state>>

\* signal_handler, on SIGTERM or SIGINT
Signal ==
    /\ Running
    /\ ~shutdown_requested
    /\ shutdown_requested' = TRUE
    /\ obs' = [obs EXCEPT !.flag_in_wait = (pc = "wait"), !.flag_age = 0]
    /\ UNCHANGED <<clock, filterState, hystVars, sideVars, pc, timer, mode, attempt,
                   sff_caller, last_trigger_time, player, vlc_state>>

\* a VLC player reaches the end of its media, or fails, during a playback
\* (the program reads the players' states in the wait loops only)
VlcProgress(h, st) ==
    /\ Running
    /\ player.is_playing
    /\ vlc_state[h] = "Playing"
    /\ vlc_state' = [vlc_state EXCEPT ![h] = st]
    /\ UNCHANGED <<clock, filterState, hystVars, sideVars, shutdown_requested, pc, timer,
                   mode, attempt, sff_caller, last_trigger_time, player, obs>>

\* main: the mode argument is checked, the signal handlers are installed
ParseArgs ==
    /\ pc = "start"
    /\ pc' = IF mode \in {"single", "dual"} THEN "init_sensor" ELSE "returned"
    /\ UNCHANGED <<clock, filterState, hystVars, sideVars, shutdown_requested, timer,
                   mode, attempt, sff_caller, last_trigger_time, player,
                   vlc_state, obs>>

\* main: MotionSensor(...) succeeds, or fails and leaves motion_sensor None
InitSensor(ok) ==
    /\ pc = "init_sensor"
    /\ motion_sensor' = IF ok THEN "sensor" ELSE "None"
    /\ pc' = "check_vlc"
    /\ UNCHANGED <<clock, motion_confirmation_counter, last_motion_time, hist,
                   hystVars, sideVars, shutdown_requested, timer, mode,
                   attempt, sff_caller, last_trigger_time, player, vlc_state,
                   obs>>

\* main: vlc.Instance() is tried; without VLC main returns
CheckVlc(ok) ==
    /\ pc = "check_vlc"
    /\ pc' = IF ok THEN "create_player" ELSE "finally"
    /\ UNCHANGED <<clock, filterState, hystVars, sideVars, shutdown_requested, timer,
                   mode, attempt, sff_caller, last_trigger_time, player,
                   vlc_state, obs>>

\* main: configure_display(mode), whose result is dropped, then
\* player = UnifiedVideoPlayer(mode) on a playlist of n entries: files_ok
\* is what os.path.exists gives, vlc_ok whether the VLC objects can be
\* created, positioning how the window positioning ends; the handles
\* created before a positioning failure stay
CreatePlayer(display_ok, n, files_ok, vlc_ok, positioning) ==
    LET started == start_vlc_instances(mode, vlc_ok, positioning)
        initialized == check_videos(n, files_ok) /\ started
    IN
    /\ pc = "create_player"
    /\ player' = [exists |-> TRUE, initialized |-> initialized,
                  is_playing |-> FALSE, current_index |-> 0, n |-> n]
    /\ vlc_state' = IF check_videos(n, files_ok) /\ vlc_ok
                    THEN [h \in AllHandles |->
                            IF h \in HandlesOf(mode) THEN "NothingSpecial"
                            ELSE "None"]
                    ELSE NoHandles
    /\ attempt' = 0
    /\ pc' = IF initialized THEN "first_frame" ELSE "finally"
    /\ obs' = [obs EXCEPT !.prep =
                 IF n = 0 \/ ~check_videos(n, files_ok) \/ ~vlc_ok THEN "none"
                 ELSE IF mode = "dual" /\ positioning = "raises"
                      THEN "positioning"
                 ELSE IF ~display_ok THEN "display"
                 ELSE "none"]
    /\ UNCHANGED <<clock, filterState, hystVars, sideVars, shutdown_requested, timer,
                   mode, sff_caller, last_trigger_time>>

\* variant: main gives up when no attempt has shown the first frame
FirstFrameAttempt_abort ==
    /\ pc = "first_frame"
    /\ timer = 0
    /\ IF attempt < FIRST_FRAME_ATTEMPTS
       THEN pc' = "sff_begin" /\ sff_caller' = "startup"
       ELSE pc' = "finally" /\ sff_caller' = "none"
    /\ UNCHANGED <<clock, filterState, hystVars, sideVars, shutdown_requested, timer,
                   mode, attempt, last_trigger_time, player, vlc_state, obs>>

\* main: one pass of `for attempt in range(3)`, or the loop's else branch
FirstFrameAttempt ==
    /\ pc = "first_frame"
    /\ timer = 0
    /\ IF attempt < FIRST_FRAME_ATTEMPTS
       THEN pc' = "sff_begin" /\ sff_caller' = "startup"
       ELSE pc' = "loop_top" /\ sff_caller' = "none"
    /\ UNCHANGED <<clock, filterState, hystVars, sideVars, shutdown_requested, timer,
                   mode, attempt, last_trigger_time, player, vlc_state, obs>>

\* what the caller of show_first_frame does with its result
SffReturn(result) ==
    IF sff_caller = "startup"
    THEN IF result
         THEN pc' = "loop_top" /\ timer' = 0 /\ attempt' = attempt
         ELSE pc' = "first_frame" /\ timer' = RETRY_SLEEP
              /\ attempt' = attempt + 1
    ELSE pc' = "loop_top" /\ timer' = POLL_SLEEP /\ attempt' = attempt

\* observation: show_first_frame is called
ObsSffCall(o) ==
    IF sff_caller = "startup"
    THEN [o EXCEPT !.startup_tries =
                       Min(o.startup_tries + 1, FIRST_FRAME_ATTEMPTS + 1)]
    ELSE [o EXCEPT !.post_tries =
                       Min(o.post_tries + 1, FIRST_FRAME_ATTEMPTS + 1)]

\* observation: show_first_frame returns result
ObsSffResult(o, result) ==
    IF sff_caller = "startup"
    THEN [o EXCEPT !.startup_ok = result, !.idle_for = -1]
    ELSE [o EXCEPT !.post_ok = result, !.idle_for = -1,
                   !.failed = IF result THEN o.failed ELSE "idle"]

\* show_first_frame up to its time.sleep(0.5): the media are set and played
\* (ok), or a VLC call raises and False is returned
SffBegin(ok) ==
    /\ pc = "sff_begin"
    /\ LET begun == show_first_frame_begin(player.initialized,
                                           player.current_index, player.n, ok)
       IN
       IF begun = "raise"
       THEN /\ pc' = "finally" /\ timer' = 0 /\ sff_caller' = "none"
            /\ obs' = [ObsSffCall(obs) EXCEPT !.config = "playlist"]
            /\ UNCHANGED <<vlc_state, attempt>>
       ELSE IF begun = "settle"
       THEN /\ vlc_state' = [h \in AllHandles |->
                               IF h \in HandlesOf(mode) THEN "Playing"
                               ELSE vlc_state[h]]
            /\ pc' = "sff_settle"
            /\ timer' = SETTLE_SLEEP
            /\ obs' = [ObsSffCall(obs) EXCEPT
                         !.idle_for = player.current_index,
                         !.op_after_flag = obs.op_after_flag
                                             \/ shutdown_requested]
            /\ UNCHANGED <<attempt, sff_caller>>
       ELSE /\ SffReturn(FALSE) /\ sff_caller' = "none"
            /\ obs' = [ObsSffResult(ObsSffCall(obs), FALSE) EXCEPT
                         !.op_after_flag =
                             obs.op_after_flag
                               \/ (player.initialized /\ shutdown_requested)]
            /\ UNCHANGED vlc_state
    /\ UNCHANGED <<clock, filterState, hystVars, sideVars, shutdown_requested, mode,
                   last_trigger_time, player>>

\* show_first_frame after its time.sleep(0.5): the players are paused (ok),
\* or a VLC call raises and False is returned
SffEnd(ok) ==
    /\ pc = "sff_settle"
    /\ timer = 0
    /\ IF ok
       THEN /\ vlc_state' = [h \in AllHandles |->
                               IF h \in HandlesOf(mode)
                                  /\ vlc_state[h] = "Playing"
                               THEN "Paused" ELSE vlc_state[h]]
            /\ SffReturn(TRUE)
       ELSE UNCHANGED vlc_state /\ SffReturn(FALSE)
    /\ sff_caller' = "none"
    /\ obs' = [ObsSffResult(obs, ok) EXCEPT
                 !.op_after_flag = obs.op_after_flag \/ shutdown_requested]
    /\ UNCHANGED <<clock, filterState, hystVars, sideVars, shutdown_requested, mode,
                   last_trigger_time, player>>

\* variant: the loop is `while True`
LoopTop_ignoreflag ==
    /\ pc = "loop_top"
    /\ timer = 0
    /\ pc' = "poll"
    /\ obs' = [obs EXCEPT !.entered = TRUE, !.prep = "none"]
    /\ UNCHANGED <<clock, filterState, hystVars, sideVars, shutdown_requested, timer,
                   mode, attempt, sff_caller, last_trigger_time, player,
                   vlc_state>>

\* main: while not shutdown_requested
LoopTop ==
    /\ pc = "loop_top"
    /\ timer = 0
    /\ pc' = IF shutdown_requested THEN "finally" ELSE "poll"
    /\ obs' = IF shutdown_requested THEN obs
              ELSE [obs EXCEPT !.entered = TRUE, !.prep = "none"]
    /\ UNCHANGED <<clock, filterState, hystVars, sideVars, shutdown_requested, timer,
                   mode, attempt, sff_caller, last_trigger_time, player,
                   vlc_state>>

\* observation: a poll reads sample raw from the sensor, if there is one
ObsPoll(o, raw) ==
    LET sampled == motion_sensor # "None"
    IN [o EXCEPT !.ones = IF sampled /\ raw /\ o.ones = 0 THEN 1 ELSE 0,
                 !.pair = sampled /\ raw /\ o.ones = 1,
                 !.failed = "none",
                 !.post_tries = 0,
                 !.post_ok = FALSE]

\* variant: a confirmed event that was turned down is kept until it fires
MainPoll_latched(raw) ==
    /\ pc = "poll"
    /\ LET current_time == clock
           r == detect_motion_filtered(motion_sensor,
                    motion_confirmation_counter, last_motion_time, clock, raw)
       IN /\ motion_confirmation_counter' = r.counter
          /\ last_motion_time' = r.last
          /\ IF FireCondition(r.ret \/ obs.rejected, player.is_playing,
                              current_time,
                              last_trigger_time)
             THEN /\ last_trigger_time' = current_time
                  /\ pc' = "play_video"
                  /\ timer' = 0
                  /\ obs' = [ObsPoll(obs, raw) EXCEPT
                                        !.fires = Min(obs.fires + 1, 3),
                                        !.fired_at = current_time,
                                        !.prev_fired_at = obs.fired_at,
                                        !.rejected = FALSE,
                                        !.rejected_before = obs.rejected]
             ELSE /\ pc' = "loop_top"
                  /\ timer' = POLL_SLEEP
                  /\ obs' = [ObsPoll(obs, raw) EXCEPT
                                        !.rejected = obs.rejected \/ r.ret]
                  /\ UNCHANGED last_trigger_time
    /\ UNCHANGED <<clock, motion_sensor, hist, hystVars, sideVars,
                   shutdown_requested,
                   mode, attempt, sff_caller, player, vlc_state>>

\* variant: a confirmed event that is turned down restarts the cooldown
MainPoll_restart(raw) ==
    /\ pc = "poll"
    /\ LET current_time == clock
           r == detect_motion_filtered(motion_sensor,
                    motion_confirmation_counter, last_motion_time, clock, raw)
       IN /\ motion_confirmation_counter' = r.counter
          /\ last_motion_time' = r.last
          /\ IF FireCondition(r.ret, player.is_playing, current_time,
                              last_trigger_time)
             THEN /\ last_trigger_time' = current_time
                  /\ pc' = "play_video"
                  /\ timer' = 0
                  /\ obs' = [ObsPoll(obs, raw) EXCEPT
                                        !.fires = Min(obs.fires + 1, 3),
                                        !.fired_at = current_time,
                                        !.prev_fired_at = obs.fired_at,
                                        !.rejected = FALSE,
                                        !.rejected_before = obs.rejected]
             ELSE /\ pc' = "loop_top"
                  /\ timer' = POLL_SLEEP
                  /\ obs' = [ObsPoll(obs, raw) EXCEPT
                                        !.rejected = obs.rejected \/ r.ret]
                  /\ last_trigger_time' = IF r.ret THEN current_time
                                          ELSE last_trigger_time
    /\ UNCHANGED <<clock, motion_sensor, hist, hystVars, sideVars,
                   shutdown_requested,
                   mode, attempt, sff_caller, player, vlc_state>>

\* main: one poll: detect_motion(), then the fire condition; without a fire
\* the iteration ends in time.sleep(0.5)
MainPoll(raw) ==
    /\ pc = "poll"
    /\ LET current_time == clock
           r == detect_motion_filtered(motion_sensor,
                    motion_confirmation_counter, last_motion_time, clock, raw)
       IN /\ motion_confirmation_counter' = r.counter
          /\ last_motion_time' = r.last
          /\ IF FireCondition(r.ret, player.is_playing, current_time,
                              last_trigger_time)
             THEN /\ last_trigger_time' = current_time
                  /\ pc' = "play_video"
                  /\ timer' = 0
                  /\ obs' = [ObsPoll(obs, raw) EXCEPT
                                        !.fires = Min(obs.fires + 1, 3),
                                        !.fired_at = current_time,
                                        !.prev_fired_at = obs.fired_at,
                                        !.rejected = FALSE,
                                        !.rejected_before = obs.rejected]
             ELSE /\ pc' = "loop_top"
                  /\ timer' = POLL_SLEEP
                  /\ obs' = [ObsPoll(obs, raw) EXCEPT
                                        !.rejected = obs.rejected \/ r.ret]
                  /\ UNCHANGED last_trigger_time
    /\ UNCHANGED <<clock, motion_sensor, hist, hystVars, sideVars,
                   shutdown_requested,
                   mode, attempt, sff_caller, player, vlc_state>>

\* variant: the exception of the sensor read leaves the loop
MainPollError_fatal ==
    /\ pc = "poll"
    /\ motion_sensor # "None"
    /\ pc' = "finally"
    /\ timer' = 0
    /\ obs' = [obs EXCEPT !.failed = "sensor", !.pair = FALSE,
                          !.post_tries = 0, !.post_ok = FALSE]
    /\ UNCHANGED <<clock, filterState, hystVars, sideVars, shutdown_requested, mode,
                   attempt, sff_caller, last_trigger_time, player, vlc_state>>

\* main: the sensor read raises; the iteration ends in the except branch
\* and its time.sleep(1)
MainPollError ==
    /\ pc = "poll"
    /\ motion_sensor # "None"
    /\ pc' = "loop_top"
    /\ timer' = ERROR_SLEEP
    /\ obs' = [obs EXCEPT !.failed = "sensor", !.pair = FALSE,
                          !.post_tries = 0, !.post_ok = FALSE]
    /\ UNCHANGED <<clock, filterState, hystVars, sideVars, shutdown_requested, mode,
                   attempt, sff_caller, last_trigger_time, player, vlc_state>>

\* play_video up to the time.sleep(1) of the wait: the early returns, then
\* is_playing is set and the media are set and played (ok), or a VLC call
\* raises
PlayVideo(ok) ==
    /\ pc = "play_video"
    /\ IF player.is_playing \/ ~player.initialized
       THEN /\ pc' = "after_play"
            /\ obs' = [obs EXCEPT !.play_ret = play_video_result,
                                  !.ending = "none"]
            /\ UNCHANGED <<player, vlc_state, timer>>
       ELSE /\ player' = [player EXCEPT !.is_playing = TRUE]
            /\ IF ok
               THEN /\ vlc_state' = [h \in AllHandles |->
                                       IF h \in HandlesOf(mode) THEN "Playing"
                                       ELSE vlc_state[h]]
                    /\ pc' = "wait"
                    /\ timer' = WAIT_GRACE
                    /\ obs' = [obs EXCEPT !.wait_start = clock,
                                          !.wait_exit = "none",
                                          !.read = NoHandles,
                                          !.saw_left_only = FALSE,
                                          !.ending = "none",
                                          !.play_ret = "unset",
                                          !.started_index = player.current_index,
                                          !.prev_started = obs.started_index,
                                          !.pair = FALSE,
                                          !.op_after_flag =
                                              obs.op_after_flag
                                                \/ shutdown_requested]
               ELSE /\ pc' = "play_finally"
                    /\ obs' = [obs EXCEPT !.wait_start = -1,
                                          !.wait_exit = "none",
                                          !.ending = "exception",
                                          !.play_ret = "unset",
                                          !.started_index = player.current_index,
                                          !.prev_started = obs.started_index,
                                          !.pair = FALSE,
                                          !.failed = "play",
                                          !.op_after_flag =
                                              obs.op_after_flag
                                                \/ shutdown_requested]
                    /\ UNCHANGED <<vlc_state, timer>>
    /\ UNCHANGED <<clock, filterState, hystVars, sideVars, shutdown_requested, mode,
                   attempt, sff_caller, last_trigger_time>>

\* the ending of a playback, told from the states the wait read last
EndingOf(st) ==
    IF \E h \in HandlesOf(mode) : st[h] = "Error" THEN "error" ELSE "completed"

\* one iteration of the wait loop: the loop condition, then get_state on
\* every player, then break or time.sleep(0.1)
WaitPoll ==
    /\ pc = "wait"
    /\ timer = 0
    /\ IF shutdown_requested \/ ~player.is_playing
       THEN /\ pc' = "play_finally"
            /\ timer' = 0
            /\ obs' = [obs EXCEPT !.wait_exit = "shutdown",
                                  !.ending = "aborted"]
       ELSE IF WaitDone(mode, vlc_state)
       THEN /\ pc' = "play_finally"
            /\ timer' = 0
            /\ obs' = [obs EXCEPT !.wait_exit = "terminal",
                                  !.read = vlc_state,
                                  !.ending = EndingOf(vlc_state)]
       ELSE /\ pc' = "wait"
            /\ timer' = WAIT_POLL
            /\ obs' = [obs EXCEPT
                   !.read = vlc_state,
                   !.saw_left_only = obs.saw_left_only
                       \/ (/\ mode = "dual"
                           /\ Terminal(vlc_state["vlc_player_left"])
                           /\ ~Terminal(vlc_state["vlc_player_right"]))]
    /\ UNCHANGED <<clock, filterState, hystVars, sideVars, shutdown_requested, mode,
                   attempt, sff_caller, last_trigger_time, player, vlc_state>>

\* get_state raises in the wait loop: the exception ends the wait
WaitPollError ==
    /\ pc = "wait"
    /\ timer = 0
    /\ ~shutdown_requested
    /\ player.is_playing
    /\ pc' = "play_finally"
    /\ obs' = [obs EXCEPT !.wait_exit = "exception", !.ending = "exception",
                          !.failed = "play"]
    /\ UNCHANGED <<clock, filterState, hystVars, sideVars, shutdown_requested, timer,
                   mode, attempt, sff_caller, last_trigger_time, player,
                   vlc_state>>

\* variant: the rotation is the last statement of the try block, so a
\* playback that raised does not rotate
PlayFinally_tryrotate ==
    /\ pc = "play_finally"
    /\ player' = [player EXCEPT
                    !.is_playing = FALSE,
                    !.current_index = IF obs.ending = "exception"
                                      THEN player.current_index
                                      ELSE rotate_to_next(player.current_index)]
    /\ pc' = "after_play"
    /\ obs' = [obs EXCEPT !.play_ret = play_video_result]
    /\ UNCHANGED <<clock, filterState, hystVars, sideVars, shutdown_requested, timer,
                   mode, attempt, sff_caller, last_trigger_time, vlc_state>>

\* variant: the rotation is left to a later step
PlayFinally_norotate ==
    /\ pc = "play_finally"
    /\ player' = [player EXCEPT !.is_playing = FALSE]
    /\ pc' = "after_play"
    /\ obs' = [obs EXCEPT !.play_ret = play_video_result]
    /\ UNCHANGED <<clock, filterState, hystVars, sideVars, shutdown_requested, timer,
                   mode, attempt, sff_caller, last_trigger_time, vlc_state>>

\* variant: is_playing is cleared at the end of the try block only
PlayFinally_keepplaying ==
    /\ pc = "play_finally"
    /\ player' = [player EXCEPT
                    !.is_playing = (obs.ending = "exception"),
                    !.current_index = rotate_to_next(player.current_index)]
    /\ pc' = "after_play"
    /\ obs' = [obs EXCEPT !.play_ret = play_video_result]
    /\ UNCHANGED <<clock, filterState, hystVars, sideVars, shutdown_requested, timer,
                   mode, attempt, sff_caller, last_trigger_time, vlc_state>>

\* the finally clause of _play_video_single/_play_video_dual, and the
\* return of play_video
PlayFinally ==
    /\ pc = "play_finally"
    /\ player' = [player EXCEPT
                    !.is_playing = FALSE,
                    !.current_index = rotate_to_next(player.current_index)]
    /\ pc' = "after_play"
    /\ obs' = [obs EXCEPT !.play_ret = play_video_result]
    /\ UNCHANGED <<clock, filterState, hystVars, sideVars, shutdown_requested, timer,
                   mode, attempt, sff_caller, last_trigger_time, vlc_state>>

\* main: after play_video, show the first frame of the next video
AfterPlay ==
    /\ pc = "after_play"
    /\ pc' = "sff_begin"
    /\ sff_caller' = "loop"
    /\ obs' = [obs EXCEPT !.wait_start = -1, !.wait_exit = "none",
                          !.read = NoHandles, !.saw_left_only = FALSE,
                          !.ending = "none", !.play_ret = "unset"]
    /\ UNCHANGED <<clock, filterState, hystVars, sideVars, shutdown_requested, timer,
                   mode, attempt, last_trigger_time, player, vlc_state>>

\* main's finally clause: player.cleanup() when the player exists, then
\* motion_sensor.close() when there is a sensor
Finally ==
    /\ pc = "finally"
    /\ timer = 0
    /\ IF player.exists
       THEN /\ player' = [player EXCEPT !.is_playing = FALSE]
            /\ vlc_state' = NoHandles
            /\ obs' = [obs EXCEPT
                         !.stops = Cardinality({h \in AllHandles :
                                                 vlc_state[h] # "None"}),
                         !.cleaned = TRUE]
       ELSE UNCHANGED <<player, vlc_state, obs>>
    /\ motion_sensor' = IF motion_sensor # "None" THEN "closed" ELSE "None"
    /\ pc' = "returned"
    /\ UNCHANGED <<clock, motion_confirmation_counter, last_motion_time, hist,
                   hystVars, sideVars, shutdown_requested, timer,
                   mode, attempt, sff_caller, last_trigger_time>>

Next ==
    \/ Tick
    \/ Signal
    \/ \E h \in AllHandles, st \in {"Ended", "Error"} : VlcProgress(h, st)
    \/ ParseArgs
    \/ \E ok \in BOOLEAN : InitSensor(ok)
    \/ \E ok \in BOOLEAN : CheckVlc(ok)
    \/ \E display_ok \in BOOLEAN, n \in PlaylistLengths, files_ok \in BOOLEAN,
          vlc_ok \in BOOLEAN, positioning \in PositioningOutcomes :
            CreatePlayer(display_ok, n, files_ok, vlc_ok, positioning)
    \/ FirstFrameAttempt
    \/ \E ok \in BOOLEAN : SffBegin(ok)
    \/ \E ok \in BOOLEAN : SffEnd(ok)
    \/ LoopTop
    \/ \E raw \in BOOLEAN : MainPoll(raw)
    \/ MainPollError
    \/ \E ok \in BOOLEAN : PlayVideo(ok)
    \/ WaitPoll
    \/ WaitPollError
    \/ PlayFinally
    \/ AfterPlay
    \/ Finally

Spec == Init /\ [][Next]_vars

\* the runs with one screen (or a wrong argument)
InitLive == Init /\ mode # "dual"

\* the interpreter keeps running and time keeps passing: a step is taken
\* as long as one can be
SpecLive == InitLive /\ [][Next]_vars /\ WF_vars(Next)

----------------------------------------------------------------------------
(* The wait of play_video alone, with no limit on how long it is followed: *)
(* _wait_for_video_end_single and _wait_for_videos_end_dual never read the *)
(* time, so a sleep is one step and the clock stands still.                *)

\* play_video has set is_playing and started the players of the current
\* unit, and is in the time.sleep(1) before its wait loop
InitWait ==
    /\ clock = StartTime
    /\ FilterIdle
    /\ HystIdle
    /\ SideIdle
    /\ shutdown_requested = FALSE
    /\ pc = "wait"
    /\ timer = WAIT_GRACE
    /\ mode \in {"single", "dual"}
    /\ attempt = 0
    /\ sff_caller = "none"
    /\ last_trigger_time = StartTime
    /\ \E i \in 0..(NumVideos - 1) :
          /\ player = [exists |-> TRUE, initialized |-> TRUE,
                       is_playing |-> TRUE, current_index |-> i,
                       n |-> NumVideos]
          /\ obs = [ObsInit EXCEPT !.entered = TRUE, !.fires = 1,
                                   !.fired_at = StartTime,
                                   !.wait_start = StartTime,
                                   !.started_index = i]
    /\ vlc_state = [h \in AllHandles |->
                      IF h \in HandlesOf(mode) THEN "Playing" ELSE "None"]

\* a time.sleep of the wait returns
WaitSleep ==
    /\ pc = "wait"
    /\ timer > 0
    /\ timer' = 0
    /\ UNCHANGED <<clock, filterState, hystVars, sideVars, shutdown_requested,
                   pc, mode, attempt, sff_caller, last_trigger_time, player,
                   vlc_state, obs>>

NextWait ==
    \/ WaitSleep
    \/ Signal
    \/ \E h \in AllHandles, st \in {"Ended", "Error"} : VlcProgress(h, st)
    \/ WaitPoll
    \/ WaitPollError
    \/ PlayFinally

\* the interpreter keeps running play_video; whether a signal arrives,
\* whether a player ever leaves the Playing state and whether get_state
\* raises is up to the environment
SpecWait ==
    /\ InitWait
    /\ [][NextWait]_vars
    /\ WF_vars(WaitSleep \/ WaitPoll \/ PlayFinally)

----------------------------------------------------------------------------
(* SpecCycle: main's poll loop followed without end, with a sensor that    *)
(* reports presence on every poll and no signal.  main compares the time   *)
(* with last_trigger_time and last_motion_time only through differences,   *)
(* so instead of moving the clock forward a tenth of a second moves the    *)
(* two timestamps back, until they are older than every period.            *)

\* a timestamp older than this is beyond the cooldown and the debounce
\* window for good
CycleCap == effective_cooldown

\* timestamp x seen a tenth of a second later
Aged(x) == IF clock - x > CycleCap THEN x ELSE x - 1

\* main enters its poll loop with a sensor, a player and the first frame
\* of the first unit shown
InitCycle ==
    /\ clock = StartTime
    /\ motion_sensor = "sensor"
    /\ motion_confirmation_counter = 0
    /\ last_motion_time = 0
    /\ hist = <<>>
    /\ HystIdle
    /\ SideIdle
    /\ shutdown_requested = FALSE
    /\ pc = "loop_top"
    /\ timer = 0
    /\ mode \in {"single", "dual"}
    /\ attempt = 0
    /\ sff_caller = "none"
    /\ last_trigger_time = 0
    /\ player = [exists |-> TRUE, initialized |-> TRUE, is_playing |-> FALSE,
                 current_index |-> 0, n |-> NumVideos]
    /\ vlc_state = [h \in AllHandles |->
                      IF h \in HandlesOf(mode) THEN "Paused" ELSE "None"]
    /\ obs = [ObsInit EXCEPT !.startup_tries = 1, !.startup_ok = TRUE]

\* a tenth of a second of a pending sleep passes
TickCycle ==
    /\ timer > 0
    /\ timer' = timer - 1
    /\ last_trigger_time' = Aged(last_trigger_time)
    /\ last_motion_time' = Aged(last_motion_time)
    /\ UNCHANGED <<clock, motion_sensor, motion_confirmation_counter, hist,
                   hystVars, sideVars, shutdown_requested, pc, mode, attempt,
                   sff_caller, player, vlc_state, obs>>

\* the steps of main and of the player
CycleProgram ==
    \/ TickCycle
    \/ LoopTop
    \/ MainPoll(TRUE)
    \/ \E ok \in BOOLEAN : PlayVideo(ok)
    \/ WaitPoll
    \/ WaitPollError
    \/ PlayFinally
    \/ AfterPlay
    \/ \E ok \in BOOLEAN : SffBegin(ok)
    \/ \E ok \in BOOLEAN : SffEnd(ok)

\* a VLC player that is playing ends or fails
CycleVlc == \E h \in AllHandles, st \in {"Ended", "Error"} : VlcProgress(h, st)

NextCycle == CycleProgram \/ CycleVlc

\* the interpreter keeps running, and every player that is playing
\* reaches a terminal state in the end
SpecCycle ==
    /\ InitCycle
    /\ [][NextCycle]_vars
    /\ WF_vars(CycleProgram)
    /\ WF_vars(CycleVlc)

----------------------------------------------------------------------------
(* Reading of the poll history, independent of the filter's own state.     *)

Polls == 1..Len(hist)

Max(S) == CHOOSE x \in S : \A y \in S : y <= x

\* index of the latest confirmed event before poll i, 0 when there is none
LastConfirmIdx(i) ==
    LET S == {j \in 1..(i - 1) : hist[j].ret} IN IF S = {} THEN 0 ELSE Max(S)

\* poll i is taken less than MOTION_DEBOUNCE_TIME after the previous
\* confirmed event
InWindow(i) ==
    /\ LastConfirmIdx(i) > 0
    /\ hist[i].t - hist[LastConfirmIdx(i)].t < MOTION_DEBOUNCE_TIME

\* consecutive positive samples ending at poll i, counted back to the last
\* negative sample or the last confirmed event
RECURSIVE RunAll(_)
RunAll(i) ==
    IF i = 0 \/ ~hist[i].raw THEN 0
    ELSE 1 + (IF i = 1 \/ hist[i - 1].ret THEN 0 ELSE RunAll(i - 1))

\* the same run, polls inside the debounce window left out of the count
RECURSIVE RunOut(_)
RunOut(i) ==
    LET prev == IF i = 1 \/ hist[i - 1].ret THEN 0 ELSE RunOut(i - 1)
    IN IF i = 0 THEN 0
       ELSE IF InWindow(i) THEN prev
       ELSE IF ~hist[i].raw THEN 0
       ELSE 1 + prev

\* number of positive samples among polls a..b
PositivesIn(a, b) == Cardinality({k \in a..b : hist[k].raw})

----------------------------------------------------------------------------
(* C2 (as stated): a confirmed event is emitted on a poll if and only if   *)
(* that poll completes MOTION_CONFIRMATION_COUNT consecutive positive      *)
(* samples counted since the last negative sample or the last confirmed    *)
(* event.  Fails: positive polls inside the debounce window are not        *)
(* counted and emit nothing.                                               *)
C2_EmittedIffRunComplete ==
    \A i \in Polls : hist[i].ret <=> RunAll(i) >= MOTION_CONFIRMATION_COUNT

(* C2 (amended): a confirmed event is emitted on a poll if and only if the *)
(* poll is taken outside the debounce window and completes                 *)
(* MOTION_CONFIRMATION_COUNT consecutive positive samples, counting only   *)
(* the polls taken outside the debounce window, since the last negative    *)
(* such sample or the last confirmed event; never earlier and never on a   *)
(* negative sample.                                                        *)
C2_EmittedIffCountedRunComplete ==
    \A i \in Polls :
        hist[i].ret <=> /\ ~InWindow(i)
                        /\ hist[i].raw
                        /\ RunOut(i) >= MOTION_CONFIRMATION_COUNT

\* a confirmed event, and a positive poll in the window that emits nothing
\* although it completes a run of positive samples
C2_Witness ==
    \E i, j \in Polls :
        /\ hist[i].ret
        /\ j > i /\ InWindow(j) /\ hist[j].raw /\ ~hist[j].ret
        /\ RunAll(j) >= MOTION_CONFIRMATION_COUNT

(* C3: no two confirmed events returned by the filter are less than        *)
(* MOTION_DEBOUNCE_TIME apart, and a poll inside the debounce window       *)
(* returns false whatever the raw sample is.                               *)
C3_ConfirmedEventsDebounced ==
    /\ \A i, j \in Polls :
          (i < j /\ hist[i].ret /\ hist[j].ret)
              => hist[j].t - hist[i].t >= MOTION_DEBOUNCE_TIME
    /\ \A i \in Polls : InWindow(i) => ~hist[i].ret

\* two confirmed events with a positive poll inside the window between them
C3_Witness ==
    \E i, k, j \in Polls :
        /\ i < k /\ k < j
        /\ hist[i].ret /\ hist[j].ret
        /\ InWindow(k) /\ hist[k].raw

(* C4 (as stated): on every poll, also inside the debounce window, a       *)
(* positive sample increments the counter (which restarts at zero on the   *)
(* poll that confirms) and a negative sample resets it to zero.            *)
(* Fails: a poll inside the window returns before the counter is touched.  *)
C4_EveryPollCounts ==
    \A i \in Polls :
        IF hist[i].raw
        THEN \/ hist[i].after = hist[i].before + 1
             \/ hist[i].ret /\ hist[i].after = 0
        ELSE hist[i].after = 0

(* C4 (amended): on every poll taken outside the debounce window a         *)
(* positive sample increments the counter, the counter restarting at zero  *)
(* on the poll where it reaches MOTION_CONFIRMATION_COUNT, and a negative  *)
(* sample resets it to zero; a poll inside the debounce window leaves the  *)
(* counter unchanged.                                                      *)
C4_CounterOutsideWindow ==
    \A i \in Polls :
        IF InWindow(i) THEN hist[i].after = hist[i].before
        ELSE IF hist[i].raw
        THEN IF hist[i].before + 1 >= MOTION_CONFIRMATION_COUNT
             THEN hist[i].ret /\ hist[i].after = 0
             ELSE ~hist[i].ret /\ hist[i].after = hist[i].before + 1
        ELSE hist[i].after = 0

\* a positive poll inside the window, a counted positive poll and a
\* negative poll that resets a non-zero counter
C4_Witness ==
    \E i, j, k \in Polls :
        /\ InWindow(i) /\ hist[i].raw
        /\ ~InWindow(j) /\ hist[j].raw /\ hist[j].after = 1
        /\ ~hist[k].raw /\ hist[k].before = 1 /\ hist[k].after = 0

(* C5: the filter is edge-triggered: after each confirmed event the        *)
(* counter restarts at zero, and between two confirmed events there are at *)
(* least MOTION_CONFIRMATION_COUNT further positive polls, so a sample     *)
(* held positive does not confirm on every poll.                           *)
C5_EdgeTriggered ==
    /\ \A i \in Polls : hist[i].ret => hist[i].after = 0
    /\ \A i, j \in Polls :
          (i < j /\ hist[i].ret /\ hist[j].ret)
              => PositivesIn(i + 1, j) >= MOTION_CONFIRMATION_COUNT

\* the sample is positive on every poll: two confirmed events and a poll
\* between them that confirms nothing
C5_Witness ==
    /\ \A i \in Polls : hist[i].raw
    /\ \E i, k, j \in Polls :
          i < k /\ k < j /\ hist[i].ret /\ ~hist[k].ret /\ hist[j].ret

----------------------------------------------------------------------------
(* C6 (as stated): whenever the script is armed and the sample has been at *)
(* or below near for STABLE_COUNT consecutive polls, it fires on that poll *)
(* and disarms, and it never fires on a shorter run.                       *)
(* Fails: within COOLDOWN_SEC of the previous trigger the poll that        *)
(* completes the run does not fire and the script stays armed.             *)
C6_FiresOnStableRun ==
    hobs.polled =>
        /\ (hobs.armed_before /\ hobs.near_run >= STABLE_COUNT)
               => (hobs.fired /\ ~armed)
        /\ hobs.fired => hobs.near_run >= STABLE_COUNT

(* C6 (amended): a poll fires if and only if the script is armed, the      *)
(* sample has been at or below near for at least STABLE_COUNT consecutive  *)
(* polls and more than COOLDOWN_SEC has elapsed since the previous fire;   *)
(* the poll that fires disarms; it never fires on a shorter run, and from  *)
(* the start the samples [far, far, near, near, near] fire on the 5th poll *)
(* and not earlier.                                                        *)
C6_FiresOnStableRunAfterCooldown ==
    hobs.polled =>
        /\ hobs.fired <=> /\ hobs.armed_before
                          /\ hobs.near_run >= STABLE_COUNT
                          /\ hobs.cool_before
        /\ hobs.fired => (~armed /\ under_count = 0)
        /\ hobs.example \in 1..(Len(Example) - 1) => hobs.fires = 0
        /\ hobs.example = Len(Example) => (hobs.fired /\ hobs.fires = 1)

\* a second fire that the cooldown had held back on an earlier poll
C6_Witness ==
    hobs.fired /\ hobs.fires = 2 /\ hobs.deferred_before

\* the example stream has just been read
C6_ExampleWitness == hobs.example = Len(Example) /\ hobs.fired

(* C7: once the script has fired it is disarmed and does not fire again    *)
(* until the sample has been at or beyond far for STABLE_COUNT consecutive *)
(* polls; a sample inside the band neither fires nor re-arms; so between   *)
(* any two fires there is a run of STABLE_COUNT samples at or beyond far.  *)
C7_RearmNeedsFarRun ==
    hobs.polled =>
        /\ (hobs.fired /\ hobs.fires_before >= 1) => hobs.far_seen_before
        /\ hobs.fired => ~armed
        /\ (~hobs.armed_before /\ armed) => hobs.far_run >= STABLE_COUNT
        /\ hobs.zone = "band" => (~hobs.fired /\ armed = hobs.armed_before)
        /\ (hobs.zone = "band" /\ ~armed) => over_count = 0

\* a second fire has happened
C7_Witness == hobs.fired /\ hobs.fires_before >= 1

(* C32: after every call of the filter the counter is at least 0 and less  *)
(* than MOTION_CONFIRMATION_COUNT; on every poll inside a debounce window, *)
(* and whenever less than MOTION_DEBOUNCE_TIME has passed since            *)
(* last_motion_time, the counter is 0; last_motion_time never decreases.   *)
C32_CounterBounded ==
    /\ [](/\ motion_confirmation_counter \in
                0..(MOTION_CONFIRMATION_COUNT - 1)
          /\ \A i \in Polls :
                /\ hist[i].after \in 0..(MOTION_CONFIRMATION_COUNT - 1)
                /\ InWindow(i) => (hist[i].before = 0 /\ hist[i].after = 0)
          /\ (clock - last_motion_time < MOTION_DEBOUNCE_TIME)
                => motion_confirmation_counter = 0)
    /\ [][last_motion_time' >= last_motion_time]_vars

\* two confirmed events, and between them a positive poll inside the
\* debounce window of the first
C32_Witness ==
    \E i, k, j \in Polls :
        /\ i < k /\ k < j
        /\ hist[i].ret /\ hist[j].ret
        /\ InWindow(k) /\ hist[k].raw /\ hist[k].after = 0
        /\ last_motion_time = hist[j].t

(* C31: the shutdown flag is false when main starts, and once set it stays *)
(* set: no step of main, of the player or of the handler clears it.        *)
C31_FlagWriteOnce ==
    /\ [](pc = "start" => ~shutdown_requested)
    /\ [][shutdown_requested => shutdown_requested']_vars

\* main has run its finally clause and returned with the flag set during a
\* playback wait
C31_Witness ==
    /\ shutdown_requested
    /\ pc = "returned"
    /\ obs.flag_in_wait
    /\ obs.cleaned
    /\ obs.fires >= 1

(* C33: a confirmed event is never kept for later: a playback is started   *)
(* only by the poll on which the filter confirmed, and that poll completed *)
(* a fresh pair of positive samples; a confirmed event that is turned down *)
(* leaves the filter's counter at 0 and last_motion_time at the time of    *)
(* the poll, and main goes on to its sleep.                                *)
C33_NoLatchedEvent ==
    /\ (pc = "play_video")
          => /\ obs.pair
             /\ last_motion_time = clock
             /\ last_trigger_time = clock
             /\ motion_confirmation_counter = 0
    /\ (pc = "loop_top" /\ timer = POLL_SLEEP /\ obs.pair)
          => /\ obs.rejected
             /\ last_motion_time = clock
             /\ motion_confirmation_counter = 0
             /\ obs.ones = 0

\* a second playback starts on a fresh pair, after a confirmed event was
\* turned down during the cooldown
C33_Witness ==
    /\ pc = "play_video"
    /\ obs.fires = 2
    /\ obs.rejected_before
    /\ obs.pair
    /\ last_motion_time = clock

(* C34: main never stays stuck in its cooldown: with a sensor that reports *)
(* presence on every poll, players that always reach a terminal state and  *)
(* no signal, a playback is started again and again, every unit of the     *)
(* playlist is started again and again, and current_index only ever moves  *)
(* to the next unit in playlist order.                                     *)
C34_NeverStuckInCooldown ==
    /\ []<>(pc = "play_video")
    /\ \A i \in 0..(NumVideos - 1) :
          []<>(pc = "play_video" /\ player.current_index = i)
    /\ [][player.current_index' # player.current_index
            => player.current_index' = (player.current_index + 1) % NumVideos]_vars

\* the third playback starts, after a confirmed event was turned down
\* during the cooldown of the second
C34_Witness ==
    /\ pc = "play_video"
    /\ obs.fires = 3
    /\ obs.rejected_before
    /\ player.current_index = 2 % NumVideos

(* C35: is_playing is true only between the start of a playback and the    *)
(* return of play_video: it is false whenever main polls the sensor, shows *)
(* a first frame or sleeps, also after a playback that raised.             *)
C35_NotPlayingAtPoll ==
    /\ (pc = "poll") => ~player.is_playing
    /\ player.is_playing => pc \in {"wait", "play_finally"}

\* main is about to poll after a playback that raised
C35_Witness ==
    /\ pc = "poll"
    /\ obs.failed = "play"
    /\ obs.fires >= 1
    /\ ~player.is_playing

(* C36: in the hysteresis script, at the top of the poll loop: while armed, *)
(* over_count is 0; while disarmed, under_count is 0; and over_count is at *)
(* most STABLE_COUNT - 1.                                                  *)
C36_CountersExclusive ==
    /\ armed => over_count = 0
    /\ ~armed => under_count = 0
    /\ over_count <= STABLE_COUNT - 1
    /\ over_count >= 0
    /\ under_count >= 0

\* the script is disarmed, one far sample short of re-arming
C36_Witness ==
    /\ hobs.polled
    /\ ~armed
    /\ over_count = STABLE_COUNT - 1
    /\ hobs.fires >= 1

(* C37: in the hysteresis script, two triggers in a row are more than      *)
(* COOLDOWN_SEC apart; a trigger that only the cooldown holds back is      *)
(* deferred: under_count stays at STABLE_COUNT or more and grows with each *)
(* further near poll, and the first near poll after the cooldown sends the *)
(* trigger when no other sample came in between.                           *)
C37_DeferredByCooldown ==
    hobs.polled =>
        /\ (hobs.fired /\ hobs.fires_before >= 1)
               => hobs.now - hobs.prev_fired_at > COOLDOWN_SEC
        /\ hobs.blocked >= 1
               => (armed /\ ~hobs.fired /\ under_count >= STABLE_COUNT)
        /\ hobs.blocked = 2 => under_count > STABLE_COUNT
        /\ (hobs.blocked_before >= 1 /\ hobs.zone = "near")
               => /\ hobs.fired <=> hobs.cool_before
                  /\ ~hobs.fired => hobs.blocked >= 1

\* a trigger is sent that the cooldown had held back on the two polls
\* before
C37_Witness ==
    hobs.fired /\ hobs.blocked_before = 2 /\ hobs.zone = "near"

----------------------------------------------------------------------------
(* C1: in the orchestrator main loop, for any two consecutive fires the    *)
(* second fired_at minus the first is greater than the cooldown            *)
(* (cooldown_period + EXTENDED_COOLDOWN), whatever the trigger filter      *)
(* returns in between.                                                     *)
C1_FiresApartByCooldown ==
    /\ obs.fires >= 2
          => obs.fired_at - obs.prev_fired_at
                 > cooldown_period + EXTENDED_COOLDOWN
    /\ (pc = "play_video" /\ obs.fires >= 1) => obs.fired_at = clock

\* a second fire, after a confirmed event that was turned down in between
C1_Witness ==
    pc = "play_video" /\ obs.fires = 2 /\ obs.rejected_before

(* C8: in a dual session the wait does not end as completed until both     *)
(* handles have reported a terminal state (Ended, Error or Stopped): when  *)
(* the left handle is terminal before the right one, the wait goes on      *)
(* until the right one is terminal too.                                    *)
C8_DualWaitsForBoth ==
    (mode = "dual" /\ obs.wait_exit = "terminal")
        => /\ Terminal(obs.read["vlc_player_left"])
           /\ Terminal(obs.read["vlc_player_right"])

\* the wait ended as completed after a poll that saw the left handle
\* terminal and the right one still playing
C8_Witness ==
    mode = "dual" /\ obs.wait_exit = "terminal" /\ obs.saw_left_only

(* C9: if the shutdown flag becomes set while the playback wait is in      *)
(* progress, the wait ends within one poll interval (WAIT_POLL), and it    *)
(* ends without a stop call on any handle.                                 *)
(* Fails: a flag set during the time.sleep(1) that precedes the first      *)
(* state poll is not read until that sleep is over.                        *)
C9_AbortWithinOnePoll ==
    /\ (pc = "wait" /\ shutdown_requested /\ obs.flag_in_wait)
           => obs.flag_age <= WAIT_POLL
    /\ obs.wait_exit = "shutdown" => obs.stops = 0

(* C10: play_video returns an outcome that tells its endings apart:        *)
(* Completed when every handle ended normally, Aborted when the shutdown   *)
(* flag ended the wait, and for a handle in error an outcome that differs  *)
(* from the one of a normal end.                                           *)
(* Fails: every path of play_video returns None.                           *)
C10_OutcomeTellsEndings ==
    pc = "after_play" =>
        /\ obs.ending = "completed" => obs.play_ret = "Completed"
        /\ obs.ending = "aborted" => obs.play_ret = "Aborted"
        /\ obs.ending = "error"
               => obs.play_ret \notin {"None", "unset", "Completed"}

(* C13: rotation is cyclic: from any starting index, N advances (N the     *)
(* playlist length) bring current_index back to its starting value, and    *)
(* 1..N-1 advances never do.                                               *)
C13_RotationIsCyclic ==
    /\ rot.advances = rot.n => rot.index = rot.start
    /\ (0 < rot.advances /\ rot.advances < rot.n) => rot.index # rot.start

\* the longest playlist, started off its first entry, after a full cycle
C13_Witness ==
    rot.n = MaxVideos /\ rot.start > 0 /\ rot.advances = rot.n

(* C15: at most one playback of a media session is in progress at any      *)
(* time, also where play_video runs on a thread started by the main loop:  *)
(* no two play_video threads are between `is_playing = True' and           *)
(* `is_playing = False' together.                                          *)
(* Fails: the test of is_playing and its assignment are two steps.         *)
C15_OnePlaybackAtATime ==
    Cardinality({t \in Threads : vid1.th[t] \in {"loop", "end"}}) <= 1

(* C11: every playback attempt that is started advances current_index by   *)
(* exactly one modulo the playlist length, whether it completed, raised an *)
(* error inside the session or was aborted by shutdown; the next attempt   *)
(* plays the unit that follows the one attempted before.                   *)
C11_EveryAttemptRotates ==
    /\ (pc = "after_play" /\ obs.ending # "none")
          => player.current_index = (obs.started_index + 1) % NumVideos
    /\ (pc \in {"wait", "play_finally"} /\ obs.prev_started >= 0)
          => obs.started_index = (obs.prev_started + 1) % NumVideos

\* a playback that raised inside the session has returned
C11_Witness ==
    pc = "after_play" /\ obs.ending = "exception" /\ obs.started_index = 0

(* C12: in every reachable state of a created player,                      *)
(* 0 <= current_index < playlist length.                                   *)
C12_IndexInRange ==
    player.exists
        => (0 <= player.current_index /\ player.current_index < NumVideos)

\* the index has gone round the playlist: the last unit was attempted and
\* the index is back at the first
C12_Witness ==
    /\ pc = "after_play"
    /\ obs.started_index = NumVideos - 1
    /\ player.current_index = 0

(* C14: for every fire the order is: the playback of unit i ends, then     *)
(* the index advances to (i+1) mod N, then the first frame is shown for    *)
(* unit (i+1) mod N.  No rotation while the wait runs, and no first frame  *)
(* of the next unit before the rotation.                                   *)
C14_PlayRotateIdleOrder ==
    /\ pc = "wait"
          => (player.is_playing /\ player.current_index = obs.started_index)
    /\ pc = "play_finally"
          => (obs.ending # "none" /\ player.current_index = obs.started_index)
    /\ pc \in {"wait", "play_finally"} => obs.idle_for = -1
    /\ (pc \in {"sff_begin", "sff_settle"} /\ sff_caller = "loop")
          => /\ ~player.is_playing
             /\ player.current_index = (obs.started_index + 1) % NumVideos
    /\ (pc = "sff_settle" /\ sff_caller = "loop")
          => obs.idle_for = (obs.started_index + 1) % NumVideos

\* the first frame of unit 1 is being shown after the playback of unit 0
C14_Witness ==
    /\ pc = "sff_settle"
    /\ sff_caller = "loop"
    /\ obs.started_index = 0
    /\ obs.idle_for = 1

(* C16: end to end, with a playlist of 2 units, MOTION_CONFIRMATION_COUNT  *)
(* = 2 and a cooldown of 5 s: samples [1,1] cause one playback of unit 0   *)
(* followed by an advance to current_index = 1; samples [1,1] within 5 s   *)
(* of the first fire cause no second playback; samples [1,1] after 5 s     *)
(* cause a playback of unit 1.                                             *)
C16_EndToEnd ==
    /\ pc = "play_video" => obs.pair
    /\ (pc = "loop_top" /\ obs.pair)
          => /\ obs.fires >= 1
             /\ (clock - (POLL_SLEEP - timer)) - obs.fired_at <= 50
    /\ obs.fires >= 2 => obs.fired_at - obs.prev_fired_at > 50
    /\ (obs.fires = 1 /\ pc \in {"wait", "play_finally"})
          => obs.started_index = 0
    /\ (obs.fires = 1 /\ pc = "after_play") => player.current_index = 1
    /\ (obs.fires = 2 /\ pc \in {"wait", "play_finally"})
          => obs.started_index = 1

\* unit 1 is playing after a [1,1] that came within the cooldown of the
\* first fire and started nothing
C16_Witness ==
    /\ pc = "wait"
    /\ obs.fires = 2
    /\ obs.rejected_before
    /\ obs.started_index = 1

(* C17: at startup the first frame is attempted at most 3 times, no        *)
(* attempt follows one that succeeded, and main then enters its loop       *)
(* whether or not an attempt succeeded: after the first attempt main       *)
(* leaves only on the shutdown flag (the playlist having an entry to       *)
(* show), and a confirmed event after 3 failed attempts still starts a     *)
(* playback.                                                               *)
C17_StartupFirstFrameBounded ==
    /\ obs.startup_tries <= 3
    /\ obs.startup_ok
          => /\ pc # "first_frame"
             /\ ~(pc \in {"sff_begin", "sff_settle"} /\ sff_caller = "startup")
    /\ (obs.startup_tries >= 1 /\ obs.config = "none"
          /\ pc \in {"finally", "returned"})
          => shutdown_requested

\* a playback has started after three failed attempts at startup
C17_Witness ==
    pc = "wait" /\ obs.startup_tries = 3 /\ ~obs.startup_ok

(* C18: after a playback the first frame of the next unit is retried as at *)
(* startup: main goes back to polling after one attempt only if that       *)
(* attempt succeeded.                                                      *)
(* Fails: main calls show_first_frame once after play_video and only       *)
(* prints a warning when it returns False.                                 *)
C18_IdleRetriedAfterPlayback ==
    (pc = "poll" /\ obs.post_tries = 1) => obs.post_ok

(* C19: an exception in one main-loop iteration (sensor read, playback or  *)
(* first-frame preparation) never ends the loop: while the shutdown flag   *)
(* is not set, main is still in its loop after the failing iteration.      *)
(* A further poll follows every failing iteration (within the time         *)
(* followed) unless the flag is set first.                                 *)
C19_LoopSurvivesException ==
    /\ []((obs.failed # "none" /\ ~shutdown_requested)
             => pc \in {"loop_top", "poll", "play_video", "wait",
                        "play_finally", "after_play", "sff_begin",
                        "sff_settle"})
    /\ (obs.failed # "none")
          ~> (pc = "poll" \/ shutdown_requested
                \/ clock = StartTime + Horizon)

\* a further poll is about to be made after an iteration whose sensor read
\* raised
C19_Witness ==
    pc = "poll" /\ obs.failed = "sensor" /\ ~shutdown_requested

(* C20: once the shutdown flag is set, main starts no further iteration,   *)
(* eventually leaves its loop and returns (within the time followed), and  *)
(* on every path by which main returns after the player was created,       *)
(* cleanup has been called and the sensor, if any, has been closed.        *)
C20_ShutdownReleases ==
    /\ []((pc = "returned" /\ player.exists)
             => (obs.cleaned /\ motion_sensor # "sensor"))
    /\ [][(shutdown_requested /\ pc = "loop_top" /\ pc' # "loop_top")
             => pc' = "finally"]_vars
    /\ shutdown_requested
          ~> (pc = "returned" \/ clock = StartTime + Horizon)

\* main has returned after a flag set during a playback wait, with the
\* player cleaned up and the sensor closed
C20_Witness ==
    /\ pc = "returned"
    /\ shutdown_requested
    /\ obs.flag_in_wait
    /\ obs.cleaned
    /\ motion_sensor = "closed"

(* C21: once the shutdown flag is set, no load, play or pause call is made *)
(* on the players any more: every wait tests the flag before it goes on.   *)
(* Fails: the time.sleep(0.5) of show_first_frame does not test the flag   *)
(* and is followed by pause(); the startup loop `for attempt in range(3)`  *)
(* does not test it either and calls show_first_frame again.               *)
C21_NoSessionOpAfterFlag ==
    ~obs.op_after_flag

C23_NoSensorNeverFires ==
    (motion_sensor = "None")
       => /\ obs.fires = 0
          /\ ~obs.rejected
          /\ motion_confirmation_counter = 0
          /\ last_motion_time = 0
          /\ pc \notin {"play_video", "wait", "play_finally", "after_play"}
          /\ (obs.entered /\ pc \in {"finally", "returned"})
                => shutdown_requested

\* without a sensor main is between two polls, two seconds after the start
C23_Witness ==
    /\ motion_sensor = "None"
    /\ obs.entered
    /\ pc = "loop_top"
    /\ timer = POLL_SLEEP
    /\ clock >= StartTime + 4 * POLL_SLEEP
    /\ ~shutdown_requested

(* C24: a player that reports Error counts as terminal: with one screen    *)
(* the wait does not go on after a poll that read Error; with two screens  *)
(* the wait goes on after a poll that read Error on one player only if the *)
(* other player was not read as Ended, Error or Stopped; and a wait left   *)
(* on the states read has read one of these three states on every player.  *)
C24_ErrorIsTerminal ==
    LET done == {"Ended", "Error", "Stopped"}
        l == obs.read["vlc_player_left"]
        r == obs.read["vlc_player_right"]
    IN
    /\ (pc = "wait" /\ mode = "single")
          => obs.read["vlc_player"] # "Error"
    /\ (pc = "wait" /\ mode = "dual" /\ l = "Error") => r \notin done
    /\ (pc = "wait" /\ mode = "dual" /\ r = "Error") => l \notin done
    /\ (pc = "play_finally" /\ obs.wait_exit = "terminal")
          => \A h \in HandlesOf(mode) : obs.read[h] \in done

\* with two screens the left player was read in error while the right one
\* was still playing, and the wait ended when the right one had ended
C24_Witness ==
    /\ pc = "play_finally"
    /\ mode = "dual"
    /\ obs.wait_exit = "terminal"
    /\ obs.saw_left_only
    /\ obs.read["vlc_player_left"] = "Error"
    /\ obs.read["vlc_player_right"] = "Ended"

(* C25: with a mode argument other than single or dual, or with an empty   *)
(* playlist, main ends before its poll loop is entered: no poll and no     *)
(* playback happens; and once the loop has been entered main leaves it     *)
(* only on the shutdown flag, never on a configuration error.              *)
C25_ConfigFatalOnlyAtStartup ==
    /\ (mode \notin {"single", "dual"} \/ (player.exists /\ player.n = 0))
          => /\ ~obs.entered
             /\ obs.fires = 0
             /\ obs.ones = 0
             /\ pc \in {"start", "create_player", "first_frame", "sff_begin",
                        "finally", "returned"}
    /\ (obs.entered /\ pc \in {"finally", "returned"})
          => (shutdown_requested /\ obs.config = "none")

\* main has returned on the IndexError of an empty playlist, raised by the
\* first show_first_frame call
C25_Witness ==
    /\ pc = "returned"
    /\ player.n = 0
    /\ obs.config = "playlist"
    /\ obs.startup_tries = 1
    /\ ~obs.entered

(* C26: the cooldown is still running when a playback ends and when the    *)
(* first frame of the next unit has been shown again.                      *)
(* Fails: the cooldown is effective_cooldown (5 s) counted from the fire,  *)
(* whatever the length of the video; a playback longer than that ends with *)
(* the cooldown over, and the next confirmed event fires at once.          *)
C26_CooldownCoversPlayback ==
    /\ (pc = "after_play" /\ obs.wait_exit = "terminal")
          => clock - last_trigger_time <= effective_cooldown
    /\ (pc = "loop_top" /\ obs.post_tries = 1 /\ obs.post_ok)
          => clock - last_trigger_time <= effective_cooldown

(* C27: the wait of play_video is bounded: play_video returns after       *)
(* finitely many polls of the players' states, even if a player never      *)
(* reports Ended, Error or Stopped and the shutdown flag is never set.     *)
(* Fails: the loops are `while not shutdown_requested and self.is_playing` *)
(* with no count and no deadline; a player that stays in Playing (or       *)
(* Paused, Buffering) is polled every 0.1 s for ever.                      *)
C27_WaitBounded ==
    <>(pc = "after_play")

(* C29: when only the display preparation failed (configure_display, or    *)
(* the window positioning of the two-screen player), main still creates    *)
(* the player and goes on to its poll loop: unless the shutdown flag is    *)
(* set, it does not return.                                                *)
(* Fails: with two screens an xdotool failure is re-raised by              *)
(* _position_and_fullscreen_videos inside _start_dual_vlc_instances, which *)
(* returns False; the player is not initialized and main returns.          *)
C29_DisplayPrepNeverFatal ==
    (obs.prep # "none" /\ ~shutdown_requested)
       => pc \notin {"finally", "returned"}

(* C28: show_first_frame returns True only when every command it sent was *)
(* accepted, and False whenever one was not.                               *)
(* Fails: SimpleVideoPlayer.show_first_frame drops the result of each of   *)
(* its five _send_vlc_command calls and returns True.                      *)
C28_FalseWhenAnyCommandFails ==
    /\ (svp.ret = "True") => svp.refused = 0
    /\ (svp.step = 0 /\ svp.refused > 0) => svp.ret = "False"

(* C30: current_index changes only in the rotation at the end of a         *)
(* play_video call that went past its early returns: show_first_frame,     *)
(* cleanup, a play_video call that returns early and the start of a        *)
(* playback leave it as it was, and a completed play_video call moves it   *)
(* one step round the playlist.                                            *)
C30_IndexChangedOnlyByRotation ==
    /\ (uvp.last \in {"show_first_frame", "cleanup", "play_video_early",
                      "play_video_begin"})
          => uvp.current_index = uvp.before_index
    /\ (uvp.last = "play_video")
          => uvp.current_index = (uvp.before_index + 1) % NumVideos
    /\ (uvp.last = "init") => uvp.current_index = 0

\* play_video was called again during a playback of the second unit and
\* returned early
C30_Witness ==
    /\ uvp.last = "play_video_early"
    /\ uvp.is_playing
    /\ uvp.current_index = 1

(* C38: in the threaded variant the video capture handle is never released *)
(* while a play_video thread is inside its frame loop: once main has left  *)
(* its loop and cleanup has called cap.release(), no thread of the running *)
(* process is reading frames.                                              *)
(* Fails: the threads are daemon threads that main never joins.            *)
C38_NoReleaseDuringPlayback ==
    (vid1.released /\ Vid1Alive) => \A t \in Threads : vid1.th[t] # "loop"

(* C39: in the external-player single-screen variant, whenever play_video  *)
(* has started a playback (its `play' command was written to the player),  *)
(* the medium loaded in the player is the playlist's current unit,         *)
(* video_paths[current_video_index], whatever commands of the              *)
(* show_first_frame calls before it failed.                                *)
(* Fails: show_first_frame goes on after a failed `clear' or `add' and     *)
(* play_video loads nothing itself.                                        *)
C39_PlaysCurrentUnit ==
    (svp.op = "play" /\ svp.started)
       => svp.loaded = {svp.current_video_index}

====
